---- MODULE Spec2Model ----
(***************************************************************************)
(* chatSecure: hybrid end-to-end encryption and certificate trust.         *)
(*                                                                         *)
(* Cryptographic primitives are modelled symbolically (Dolev-Yao style):   *)
(* a ciphertext is a record that remembers the key it was made under and   *)
(* the plaintext, and decryption under another key yields garbage.  Hex    *)
(* and base64 encodings are modelled as the conversions they are.          *)
(***************************************************************************)
EXTENDS Integers, Sequences, FiniteSets, TLC

VARIABLES
    labEnv,      \* CryptoSpec: last encryptMessage call (inputs and result)
    labOpen,     \* CryptoSpec: last decryptMessage call on labEnv
    labBlob,     \* CryptoSpec: last encryptPrivateKeyWithPassword call
    labUnprot,   \* CryptoSpec: last decryptPrivateKeyWithPassword call on labBlob
    labSigned,   \* SignSpec: last signMessage call (client or server)
    labVerified, \* SignSpec: last verification call
    labCall,     \* last call of a function checked on its own (inputs and result)
    now,         \* the wall clock (new Date()), in ticks
    users,       \* server table users: user id -> row, or NoUser
    certs,       \* server table certificates: sequence of rows, id = index
    messages,    \* server table messages: sequence of rows, id = index
    pending,     \* server requests suspended at an await: slot -> continuation
    resp,        \* the last HTTP exchange completed (request, status, body)
    serverKeys,  \* ids of the key pairs generated by server code
    revokeOk,    \* certificate id -> number of revoke requests answered 200
    clientCert,  \* AuthContext certificate state of each user's browser
    view,        \* Dashboard messages state of each user's browser
    served,      \* number of HTTP requests the server has accepted
    storage,     \* sessionStorage and localStorage of each user's browser
    build,       \* which of the two AuthContext definitions the frontend runs
    sockets,     \* the WebSocket connections the server has accepted, in order
    clients,     \* WebSocketServer.clients: user id -> connection, or NoSocket
    websocketService  \* the browser's WebSocketService singleton, its sockets and timers

labVars == <<labEnv, labOpen, labBlob, labUnprot, labSigned, labVerified, labCall>>
sysVars == <<now, users, certs, messages, pending, resp, serverKeys, revokeOk,
             clientCert, view, served>>
browserVars == <<storage, build, websocketService>>
wsVars == <<sockets, clients>>
otherVars == <<browserVars, wsVars>>
vars == <<labVars, sysVars, otherVars>>

----------------------------------------------------------------------------
(* Bounds                                                                  *)

NLabKeys == 4        \* key pairs offered to the pure crypto functions
NRandom == 2         \* distinct values the random source can return
NUsers == 2          \* people who may register
MaxCerts == 3        \* certificates issued in one run
MaxMessages == 1     \* messages stored in one run
MaxTime == 2         \* last tick of the clock
YearTicks == 1       \* clock ticks in one year
NReq == 2            \* server requests that may be in flight together
MaxRequests == 5     \* HTTP requests accepted in one run

(* Program constants                                                       *)

RsaBits == 2048          \* forge.pki.rsa.generateKeyPair({ bits: 2048 })
AesKeyBits == 256        \* CryptoJS.lib.WordArray.random(256 / 8)

----------------------------------------------------------------------------
(* Values                                                                  *)

Ok(v)  == [ok |-> TRUE, val |-> v, err |-> "none"]
Err(e) == [ok |-> FALSE, val |-> [none |-> TRUE], err |-> e]

Text(s) == [txt |-> s]
EmptyText == Text("")
Undefined == [undef |-> TRUE]
LoneSurrogate == Text("<lone surrogate>")   \* a JS string that is not well-formed UTF-16
GarbageText == Text("<garbage>")            \* bytes of a wrong-key decryption that happen to decode

IsText(x) == DOMAIN x = {"txt"}

(* typeof: texts, PEM blocks, base64 and hex strings are strings.          *)
TypeOf(x) ==
    IF x = Undefined THEN "undefined"
    ELSE IF IsText(x) \/ DOMAIN x \cap {"pem", "b64", "hex"} # {} THEN "string"
    ELSE "object"

(* A JavaScript boolean returned where an object could be.                 *)
JsBoolean(b) == [boolean |-> b]
Falsy(x) == x = Undefined \/ x = EmptyText \/ x = [digits |-> <<>>]

(* CryptoJS.enc.Utf8.parse / forge.util.encodeUtf8: encodeURIComponent     *)
(* throws URIError on a lone surrogate.                                    *)
Utf8Encodable(m) == m # LoneSurrogate

(* A WordArray holds a sequence of bytes; WordArray.toString() is the     *)
(* lower-case hex string, here the sequence of its nibbles;                *)
(* CryptoJS.enc.Hex.parse reads it back.                                   *)
WordArray(bytes) == [bytes |-> bytes]
ToHex(w) == [digits |-> [i \in 1..(2 * Len(w.bytes)) |->
               IF i % 2 = 1 THEN w.bytes[(i + 1) \div 2] \div 16
               ELSE w.bytes[i \div 2] % 16]]
HexParse(h) ==
    WordArray([i \in 1..(Len(h.digits) \div 2) |->
                  16 * h.digits[2 * i - 1] + h.digits[2 * i]])

(* The random source: NRandom distinct one-byte word arrays; a session key *)
(* (256 bits) is twice as long as an iv (128 bits).                        *)
RandomWords == {WordArray(<<(37 * i) % 256>>) : i \in 1..NRandom}
RandomKeys == {WordArray(w.bytes \o w.bytes) : w \in RandomWords}
Randoms == [key : RandomKeys, iv : RandomWords, salt : RandomWords]

(* forge.util.encode64 / decode64 and CipherParams.toString / parse.       *)
Encode64(x) == [b64 |-> x]
Decode64(s) == IF DOMAIN s = {"b64"} THEN Ok(s.b64) ELSE Err("invalid base64")

(* SHA-256 is injective in the symbolic model.                             *)
Sha256(m) == [sha256 |-> m]

----------------------------------------------------------------------------
(* RSA keys and PEM (node-forge)                                           *)

KeyPair(i, b) == [id |-> i, bits |-> b]
PrivateKeyToPem(kp) == [pem |-> "RSA PRIVATE KEY", n |-> kp.id, bits |-> kp.bits]
PublicKeyToPem(kp)  == [pem |-> "PUBLIC KEY", n |-> kp.id, bits |-> kp.bits]

PemType(p) == IF "pem" \in DOMAIN p THEN p.pem ELSE "none"
PrivateKeyFromPem(p) ==
    IF PemType(p) = "RSA PRIVATE KEY" THEN Ok(KeyPair(p.n, p.bits))
    ELSE Err("Invalid PEM formatted message.")
PublicKeyFromPem(p) ==
    IF PemType(p) = "PUBLIC KEY" THEN Ok(KeyPair(p.n, p.bits))
    ELSE Err("Invalid PEM formatted message.")

(* str.includes('-----BEGIN') && str.includes('-----END')                  *)
IncludesPemHeaders(p) == PemType(p) # "none"

(* Math.ceil(n.bitLength() / 8)                                            *)
ModulusBytes(kp) == (kp.bits + 7) \div 8

(* RSAES-OAEP with SHA-1: at most k - 2*hLen - 2 bytes fit.                *)
OaepMaxLen(kp) == ModulusBytes(kp) - 2 * 20 - 2

(* generateSymmetricKey returns the hex string of 256/8 random bytes.      *)
SymmetricKeyLen == 2 * (AesKeyBits \div 8)

RsaOaepEncrypt(data, pub) ==
    IF SymmetricKeyLen > OaepMaxLen(pub)
    THEN Err("RSAES-OAEP input message length is too long.")
    ELSE Ok([wrapFor |-> pub.id, data |-> data, length |-> ModulusBytes(pub)])

RsaOaepDecrypt(c, priv) ==
    IF c.wrapFor = priv.id THEN Ok(c.data) ELSE Err("Invalid RSAES-OAEP padding.")

RsaSign(digest, priv) == [signer |-> priv.id, digest |-> digest]
RsaVerify(digest, sig, pub) ==
    /\ DOMAIN sig = {"signer", "digest"}
    /\ sig.signer = pub.id
    /\ sig.digest = digest

----------------------------------------------------------------------------
(* CryptoJS AES                                                            *)

(* AES.encrypt(message, passphraseString, {iv}): a string key is a         *)
(* passphrase; key and IV are derived from it and a random salt, the       *)
(* supplied iv is overridden, and toString() is the salted OpenSSL form.   *)
AesEncryptPassphrase(message, passphrase, salt) ==
    Encode64([fmt |-> "Salted__", salt |-> salt, kdf |-> passphrase, pt |-> message])

(* AES.encrypt(message, keyWordArray, {iv}): raw key, supplied iv.         *)
AesEncryptKey(message, key, iv) ==
    Encode64([fmt |-> "raw", key |-> key, iv |-> iv, pt |-> message])

(* The bytes AES.decrypt leaves, before they are decoded as UTF-8:         *)
(* the plaintext, or garbage when key (or iv) differ.  Pkcs7.unpad never   *)
(* fails, so garbage is, by its bits, "malformed" (not UTF-8), "empty" (no *)
(* bytes left after unpadding) or "text" (bytes that decode).              *)
GarbageOutcomes == {"malformed", "empty", "text"}
Plain(pt) == [plain |-> TRUE, pt |-> pt, g |-> "none"]
Garbage(g) == [plain |-> FALSE, pt |-> GarbageText, g |-> g]

(* A ciphertext with one bit changed (in the "Salted__" mark, the salt or  *)
(* a block): no key decrypts it to what was encrypted.                     *)
FlipBit(ct) == Encode64([fmt |-> "Salted__", flipped |-> Decode64(ct).val])

AesDecryptPassphrase(ct, passphrase, g) ==
    LET d == Decode64(ct) IN
    IF /\ d.ok /\ "fmt" \in DOMAIN d.val /\ d.val.fmt = "Salted__"
       /\ "flipped" \notin DOMAIN d.val
       /\ d.val.kdf = passphrase
    THEN Plain(d.val.pt) ELSE Garbage(g)

AesDecryptKey(ct, key, iv, g) ==
    LET d == Decode64(ct) IN
    IF d.ok /\ "fmt" \in DOMAIN d.val /\ d.val.fmt = "raw" /\ d.val.key = key /\ d.val.iv = iv
    THEN Plain(d.val.pt) ELSE Garbage(g)

(* decrypted.toString(CryptoJS.enc.Utf8)                                   *)
Utf8Stringify(bytes) ==
    IF bytes.plain THEN Ok(bytes.pt)
    ELSE IF bytes.g = "malformed" THEN Err("Malformed UTF-8 data")
    ELSE IF bytes.g = "empty" THEN Ok(EmptyText)
    ELSE Ok(bytes.pt)

(* CryptoJS.PBKDF2(password, salt, {keySize: 256/32, iterations: 10000})   *)
PBKDF2(password, salt) == [pbkdf2 |-> password, salt |-> salt]

----------------------------------------------------------------------------
(* CryptoService (frontend/src/services/cryptoService.js)                  *)

generateSymmetricKey(rnd) == ToHex(rnd.key)

encryptWithSymmetricKey(message, symmetricKey, rnd) ==
    IF ~Utf8Encodable(message) THEN Err("URI malformed")
    ELSE Ok([encryptedData |-> AesEncryptPassphrase(message, symmetricKey, rnd.salt),
             iv |-> ToHex(rnd.iv)])

decryptWithSymmetricKey(encryptedData, symmetricKey, ivHex, g) ==
    IF Falsy(encryptedData) THEN Err("encryptedData undefined")
    ELSE IF Falsy(symmetricKey) THEN Err("symmetricKey undefined")
    ELSE IF Falsy(ivHex) THEN Err("ivHex undefined")
    ELSE Utf8Stringify(AesDecryptPassphrase(encryptedData, symmetricKey, g))

encryptSymmetricKey(symmetricKey, recipientPublicKeyPem) ==
    IF Falsy(recipientPublicKeyPem)
    THEN Err("Chave publica invalida: deve ser uma string PEM")
    ELSE IF ~IncludesPemHeaders(recipientPublicKeyPem)
    THEN Err("Chave publica invalida: formato PEM incorreto")
    ELSE LET publicKey == PublicKeyFromPem(recipientPublicKeyPem) IN
         IF ~publicKey.ok THEN publicKey
         ELSE LET encrypted == RsaOaepEncrypt(symmetricKey, publicKey.val) IN
              IF ~encrypted.ok THEN encrypted ELSE Ok(Encode64(encrypted.val))

(* decryptSymmetricKey handing the bytes to RSA-OAEP without comparing     *)
(* their number with the modulus size.                                     *)
decryptSymmetricKey_NoSizeCheck(encryptedKeyBase64, privateKeyPem) ==
    IF encryptedKeyBase64 = Undefined \/ privateKeyPem = Undefined
    THEN Err("TypeError: cannot read properties of undefined")
    ELSE LET privateKey == PrivateKeyFromPem(privateKeyPem)
             encryptedKey == Decode64(encryptedKeyBase64) IN
         IF ~privateKey.ok THEN privateKey
         ELSE IF ~encryptedKey.ok \/ "length" \notin DOMAIN encryptedKey.val
         THEN Err("Tamanho da chave criptografada incompativel")
         ELSE RsaOaepDecrypt(encryptedKey.val, privateKey.val)

decryptSymmetricKey(encryptedKeyBase64, privateKeyPem) ==
    IF encryptedKeyBase64 = Undefined \/ privateKeyPem = Undefined
    THEN Err("TypeError: cannot read properties of undefined")
    ELSE LET privateKey == PrivateKeyFromPem(privateKeyPem)
             encryptedKey == Decode64(encryptedKeyBase64) IN
         IF ~privateKey.ok THEN privateKey
         ELSE IF ~encryptedKey.ok \/ "length" \notin DOMAIN encryptedKey.val
         THEN Err("Tamanho da chave criptografada incompativel")
         ELSE IF encryptedKey.val.length # ModulusBytes(privateKey.val)
         THEN Err("Tamanho da chave criptografada incompativel")
         ELSE RsaOaepDecrypt(encryptedKey.val, privateKey.val)

signMessage(message, senderPrivateKeyPem) ==
    LET privateKey == PrivateKeyFromPem(senderPrivateKeyPem) IN
    IF ~privateKey.ok THEN privateKey
    ELSE IF ~Utf8Encodable(message) THEN Err("URI malformed")
    ELSE Ok(Encode64(RsaSign(Sha256(message), privateKey.val)))

(* verifySignature comparing the signed digest with the message itself.    *)
verifySignature_NoDigest(message, signatureBase64, senderPublicKeyPem) ==
    LET publicKey == PublicKeyFromPem(senderPublicKeyPem)
        signature == Decode64(signatureBase64) IN
    /\ publicKey.ok
    /\ signature.ok
    /\ Utf8Encodable(message)
    /\ RsaVerify(message, signature.val, publicKey.val)

(* verifySignature checking who signed but not what was signed.            *)
verifySignature_AnyDigest(message, signatureBase64, senderPublicKeyPem) ==
    LET publicKey == PublicKeyFromPem(senderPublicKeyPem)
        signature == Decode64(signatureBase64) IN
    /\ publicKey.ok
    /\ signature.ok
    /\ Utf8Encodable(message)
    /\ "signer" \in DOMAIN signature.val
    /\ signature.val.signer = publicKey.val.id

(* The try block of verifySignature: publicKeyFromPem, md.update and       *)
(* publicKey.verify throw on a malformed key, message or signature.        *)
verifySignatureTry(message, signatureBase64, senderPublicKeyPem) ==
    LET publicKey == PublicKeyFromPem(senderPublicKeyPem)
        signature == Decode64(signatureBase64) IN
    IF ~publicKey.ok THEN publicKey
    ELSE IF message = Undefined THEN Err("TypeError: cannot read properties of undefined")
    ELSE IF ~Utf8Encodable(message) THEN Err("URI malformed")
    ELSE IF ~signature.ok THEN Err("Encrypted message length is invalid.")
    ELSE Ok(RsaVerify(Sha256(message), signature.val, publicKey.val))

(* verifySignature without its catch: an error is thrown on.               *)
verifySignatureCall_Rethrows(message, signatureBase64, senderPublicKeyPem) ==
    verifySignatureTry(message, signatureBase64, senderPublicKeyPem)

(* A call of verifySignature: what it returns (catch: return false).       *)
verifySignatureCall(message, signatureBase64, senderPublicKeyPem) ==
    LET tried == verifySignatureTry(message, signatureBase64, senderPublicKeyPem) IN
    IF tried.ok THEN tried ELSE Ok(FALSE)

verifySignature(message, signatureBase64, senderPublicKeyPem) ==
    verifySignatureCall(message, signatureBase64, senderPublicKeyPem).val

hashMessage(message) == [hex |-> Sha256(message)]

extractPublicKeyFromPrivateKey(privateKeyPem) ==
    LET privateKey == PrivateKeyFromPem(privateKeyPem) IN
    IF ~privateKey.ok THEN privateKey ELSE Ok(PublicKeyToPem(privateKey.val))

(* encryptMessage with the two key wraps stored under each other's name.   *)
encryptMessage_WrapsSwapped(message, recipientPublicKeyPem, senderPrivateKeyPem, rnd) ==
    LET symmetricKey == generateSymmetricKey(rnd)
        sym == encryptWithSymmetricKey(message, symmetricKey, rnd)
        encryptedKey == encryptSymmetricKey(symmetricKey, recipientPublicKeyPem)
        senderPublicKeyPem == extractPublicKeyFromPrivateKey(senderPrivateKeyPem)
        senderEncryptedKey == encryptSymmetricKey(symmetricKey, senderPublicKeyPem.val)
        signature == signMessage(message, senderPrivateKeyPem) IN
    IF ~sym.ok THEN sym
    ELSE IF ~encryptedKey.ok THEN encryptedKey
    ELSE IF ~senderPublicKeyPem.ok THEN senderPublicKeyPem
    ELSE IF ~senderEncryptedKey.ok THEN senderEncryptedKey
    ELSE IF ~signature.ok THEN signature
    ELSE Ok([encryptedMessage |-> sym.val.encryptedData,
             encryptedKey |-> senderEncryptedKey.val,
             senderEncryptedKey |-> encryptedKey.val,
             iv |-> sym.val.iv,
             signature |-> signature.val,
             messageHash |-> hashMessage(message)])

(* encryptMessage wrapping the session key for the recipient only: the     *)
(* sender's copy is a second wrap under the recipient's public key.        *)
encryptMessage_NoSelfWrap(message, recipientPublicKeyPem, senderPrivateKeyPem, rnd) ==
    LET symmetricKey == generateSymmetricKey(rnd)
        sym == encryptWithSymmetricKey(message, symmetricKey, rnd)
        encryptedKey == encryptSymmetricKey(symmetricKey, recipientPublicKeyPem)
        senderEncryptedKey == encryptSymmetricKey(symmetricKey, recipientPublicKeyPem)
        signature == signMessage(message, senderPrivateKeyPem) IN
    IF ~sym.ok THEN sym
    ELSE IF ~encryptedKey.ok THEN encryptedKey
    ELSE IF ~senderEncryptedKey.ok THEN senderEncryptedKey
    ELSE IF ~signature.ok THEN signature
    ELSE Ok([encryptedMessage |-> sym.val.encryptedData,
             encryptedKey |-> encryptedKey.val,
             senderEncryptedKey |-> senderEncryptedKey.val,
             iv |-> sym.val.iv,
             signature |-> signature.val,
             messageHash |-> hashMessage(message)])

(* encryptMessage generating a second session key for the sender's wrap.   *)
encryptMessage_TwoKeys(message, recipientPublicKeyPem, senderPrivateKeyPem, rnd) ==
    LET symmetricKey == generateSymmetricKey(rnd)
        sym == encryptWithSymmetricKey(message, symmetricKey, rnd)
        encryptedKey == encryptSymmetricKey(symmetricKey, recipientPublicKeyPem)
        senderPublicKeyPem == extractPublicKeyFromPrivateKey(senderPrivateKeyPem)
        senderEncryptedKey == encryptSymmetricKey(generateSymmetricKey([rnd EXCEPT !.key = WordArray(<<0, 0>>)]),
                                                  senderPublicKeyPem.val)
        signature == signMessage(message, senderPrivateKeyPem) IN
    IF ~sym.ok THEN sym
    ELSE IF ~encryptedKey.ok THEN encryptedKey
    ELSE IF ~senderPublicKeyPem.ok THEN senderPublicKeyPem
    ELSE IF ~senderEncryptedKey.ok THEN senderEncryptedKey
    ELSE IF ~signature.ok THEN signature
    ELSE Ok([encryptedMessage |-> sym.val.encryptedData,
             encryptedKey |-> encryptedKey.val,
             senderEncryptedKey |-> senderEncryptedKey.val,
             iv |-> sym.val.iv,
             signature |-> signature.val,
             messageHash |-> hashMessage(message)])

encryptMessage(message, recipientPublicKeyPem, senderPrivateKeyPem, rnd) ==
    LET symmetricKey == generateSymmetricKey(rnd)
        sym == encryptWithSymmetricKey(message, symmetricKey, rnd)
        encryptedKey == encryptSymmetricKey(symmetricKey, recipientPublicKeyPem)
        senderPublicKeyPem == extractPublicKeyFromPrivateKey(senderPrivateKeyPem)
        senderEncryptedKey == encryptSymmetricKey(symmetricKey, senderPublicKeyPem.val)
        signature == signMessage(message, senderPrivateKeyPem) IN
    IF ~sym.ok THEN sym
    ELSE IF ~encryptedKey.ok THEN encryptedKey
    ELSE IF ~senderPublicKeyPem.ok THEN senderPublicKeyPem
    ELSE IF ~senderEncryptedKey.ok THEN senderEncryptedKey
    ELSE IF ~signature.ok THEN signature
    ELSE Ok([encryptedMessage |-> sym.val.encryptedData,
             encryptedKey |-> encryptedKey.val,
             senderEncryptedKey |-> senderEncryptedKey.val,
             iv |-> sym.val.iv,
             signature |-> signature.val,
             messageHash |-> hashMessage(message)])

decryptMessage(encryptedMessage, encryptedKey, iv, recipientPrivateKeyPem, g) ==
    LET symmetricKey == decryptSymmetricKey(encryptedKey, recipientPrivateKeyPem) IN
    IF ~symmetricKey.ok THEN symmetricKey
    ELSE decryptWithSymmetricKey(encryptedMessage, symmetricKey.val, iv, g)

encryptPrivateKeyWithPassword(privateKeyPem, password, rnd) ==
    LET salt == rnd.salt
        key == PBKDF2(password, salt)
        iv == rnd.iv IN
    [encryptedPrivateKey |-> AesEncryptKey(privateKeyPem, key, iv),
     salt |-> ToHex(salt),
     iv |-> ToHex(iv)]

(* decryptPrivateKeyWithPassword deriving the key from the salt's hex text *)
(* instead of the bytes it encodes.                                        *)
decryptPrivateKeyWithPassword_SaltNotParsed(encryptedData, password, g) ==
    IF encryptedData = Undefined THEN Err("TypeError: cannot destructure undefined")
    ELSE IF \/ Falsy(encryptedData.encryptedPrivateKey)
            \/ Falsy(encryptedData.salt)
            \/ Falsy(encryptedData.iv)
    THEN Err("Dados de criptografia incompletos")
    ELSE LET key == PBKDF2(password, encryptedData.salt)
             decrypted == AesDecryptKey(encryptedData.encryptedPrivateKey, key,
                                        HexParse(encryptedData.iv), g)
             privateKeyPem == Utf8Stringify(decrypted) IN
         IF ~privateKeyPem.ok THEN privateKeyPem
         ELSE IF Falsy(privateKeyPem.val) THEN Err("Senha incorreta ou dados corrompidos")
         ELSE privateKeyPem

decryptPrivateKeyWithPassword(encryptedData, password, g) ==
    IF encryptedData = Undefined THEN Err("TypeError: cannot destructure undefined")
    ELSE IF \/ Falsy(encryptedData.encryptedPrivateKey)
            \/ Falsy(encryptedData.salt)
            \/ Falsy(encryptedData.iv)
    THEN Err("Dados de criptografia incompletos")
    ELSE LET key == PBKDF2(password, HexParse(encryptedData.salt))
             decrypted == AesDecryptKey(encryptedData.encryptedPrivateKey, key,
                                        HexParse(encryptedData.iv), g)
             privateKeyPem == Utf8Stringify(decrypted) IN
         IF ~privateKeyPem.ok THEN privateKeyPem
         ELSE IF Falsy(privateKeyPem.val) THEN Err("Senha incorreta ou dados corrompidos")
         ELSE privateKeyPem

----------------------------------------------------------------------------
(* X.509 certificates (node-forge)                                         *)

NoTime == 0 - 1          \* SQL NULL in a timestamp column
OneYear == YearTicks     \* setFullYear(getFullYear() + 1)

(* cert.setSubject / setIssuer / sign / certificateToPem                   *)
CertificateToPem(serial, subject, issuer, notBefore, notAfter, publicKey, signer) ==
    [pem |-> "CERTIFICATE", serialNumber |-> serial, subject |-> subject,
     issuer |-> issuer, notBefore |-> notBefore, notAfter |-> notAfter,
     publicKey |-> publicKey, signedBy |-> signer.id]

CertificateFromPem(p) ==
    IF PemType(p) = "CERTIFICATE" THEN Ok(p) ELSE Err("Invalid PEM formatted message.")

Attrs(userInfo) ==
    [commonName |-> userInfo.username, emailAddress |-> userInfo.email,
     organizationName |-> "ChatSecure", countryName |-> "BR"]

(* cert.verify(cert): throws unless the issuer equals the subject, then    *)
(* checks the signature with the certificate's own public key.             *)
CertVerifySelf(cert) ==
    IF cert.issuer # cert.subject
    THEN Err("The parent certificate did not issue the given child certificate")
    ELSE Ok(cert.signedBy = cert.publicKey.id)

(* CryptoService.generateKeyPairWithCertificate (client)                   *)
generateKeyPairWithCertificate(userInfo, keyId, t) ==
    LET keyPair == KeyPair(keyId, RsaBits)
        attrs == Attrs(userInfo) IN
    [privateKey |-> PrivateKeyToPem(keyPair),
     publicKey |-> PublicKeyToPem(keyPair),
     certificate |-> CertificateToPem(keyId, attrs, attrs, t, t + OneYear, keyPair, keyPair),
     serialNumber |-> keyId,
     subject |-> [CN |-> userInfo.username],
     issuer |-> [CN |-> userInfo.username],
     validFrom |-> t,
     validTo |-> t + OneYear]

(* CertificateManager.generateKeyPair (server)                             *)
generateKeyPair(keyId) ==
    LET keyPair == KeyPair(keyId, RsaBits) IN
    [privateKey |-> keyPair, publicKey |-> keyPair,
     privateKeyPem |-> PrivateKeyToPem(keyPair),
     publicKeyPem |-> PublicKeyToPem(keyPair)]

(* The name "ChatSecure CA": user names are numbers, this is none of them.  *)
ChatSecureCA == 0

(* parseInt(process.env.CERT_VALIDITY_DAYS || 365): the variable is unset  *)
(* or holds a number of days.                                              *)
DaysPerYear == 365
CertValidityDays(env) == IF env = Undefined THEN DaysPerYear ELSE env.days

(* notAfter.setFullYear(notBefore.getFullYear() + days / 365): setFullYear *)
(* truncates its argument to a whole year.                                 *)
YearsAdded(days) == days \div DaysPerYear

(* CertificateManager.createSelfSignedCertificate (server), running with   *)
(* CERT_VALIDITY_DAYS = env                                                *)
createSelfSignedCertificateWith(env, keyPair, userInfo, serial, t) ==
    LET attrs == Attrs(userInfo)
        notAfter == t + YearsAdded(CertValidityDays(env)) * OneYear IN
    [certificate |-> CertificateToPem(serial, attrs, attrs, t, notAfter,
                                      keyPair.publicKey, keyPair.privateKey),
     serialNumber |-> serial,
     publicKey |-> keyPair.publicKeyPem,
     privateKey |-> keyPair.privateKeyPem,
     subject |-> [CN |-> userInfo.username],
     issuer |-> [CN |-> ChatSecureCA],
     expiresAt |-> notAfter,
     validFrom |-> t,
     validTo |-> notAfter]

(* The server of the system runs with CERT_VALIDITY_DAYS unset.            *)
createSelfSignedCertificate(keyPair, userInfo, serial, t) ==
    createSelfSignedCertificateWith(Undefined, keyPair, userInfo, serial, t)

(* CertificateManager.generateUserCertificate (server)                     *)
generateUserCertificate(userInfo, keyId, t) ==
    createSelfSignedCertificate(generateKeyPair(keyId), userInfo, keyId, t)

Invalid(reason) == [valid |-> FALSE, reason |-> reason]

(* CertificateManager.verifyCertificate                                    *)
verifyCertificate(certificatePem, t) ==
    LET cert == CertificateFromPem(certificatePem) IN
    IF ~cert.ok THEN Invalid("Formato de certificado invalido")
    ELSE IF t < cert.val.notBefore \/ t > cert.val.notAfter
    THEN Invalid("Certificado expirado")
    ELSE LET verified == CertVerifySelf(cert.val) IN
         IF ~verified.ok THEN Invalid("Formato de certificado invalido")
         ELSE IF ~verified.val THEN Invalid("Assinatura invalida")
         ELSE [valid |-> TRUE, reason |-> "none"]

(* validateSelfSignedCertificate without the check of the validity period. *)
validateSelfSignedCertificate_AnyPeriod(certificatePem, t) ==
    LET cert == CertificateFromPem(certificatePem) IN
    IF ~cert.ok THEN Invalid("Formato de certificado invalido")
    ELSE IF cert.val.subject.commonName # cert.val.issuer.commonName
    THEN Invalid("Certificado nao e autoassinado")
    ELSE LET verified == CertVerifySelf(cert.val) IN
         IF ~verified.ok THEN Invalid("Erro na verificacao da assinatura")
         ELSE IF ~verified.val THEN Invalid("Assinatura do certificado invalida")
         ELSE [valid |-> TRUE, reason |-> "none"]

(* CertificateManager.validateSelfSignedCertificate                        *)
validateSelfSignedCertificate(certificatePem, t) ==
    LET cert == CertificateFromPem(certificatePem) IN
    IF ~cert.ok THEN Invalid("Formato de certificado invalido")
    ELSE IF cert.val.subject.commonName # cert.val.issuer.commonName
    THEN Invalid("Certificado nao e autoassinado")
    ELSE IF t < cert.val.notBefore \/ t > cert.val.notAfter
    THEN Invalid("Certificado expirado ou ainda nao valido")
    ELSE LET verified == CertVerifySelf(cert.val) IN
         IF ~verified.ok THEN Invalid("Erro na verificacao da assinatura")
         ELSE IF ~verified.val THEN Invalid("Assinatura do certificado invalida")
         ELSE [valid |-> TRUE, reason |-> "none"]

(* CertificateManager.extractCertificateData                               *)
extractCertificateData(certificatePem) ==
    LET cert == CertificateFromPem(certificatePem).val IN
    [certificate |-> certificatePem,
     publicKeyPem |-> PublicKeyToPem(cert.publicKey),
     serialNumber |-> cert.serialNumber,
     subject |-> [CN |-> cert.subject.commonName],
     issuer |-> [CN |-> cert.issuer.commonName],
     validFrom |-> cert.notBefore,
     validTo |-> cert.notAfter,
     email |-> cert.subject.emailAddress,
     commonName |-> cert.subject.commonName]

----------------------------------------------------------------------------
(* MessageSignature (server)                                               *)

(* new Date().toISOString()                                                *)
ToISOString(t) == [iso |-> t]

(* MessageSignature.createMessageHash: a message without a timestamp is    *)
(* hashed with the time of the call.                                       *)
createMessageHash(message, t) ==
    [hex |-> Sha256([content |-> message.content,
                     timestamp |-> IF Falsy(message.timestamp) THEN ToISOString(t)
                                   ELSE message.timestamp,
                     sender |-> message.sender,
                     recipient |-> message.recipient])]

(* MessageSignature.signMessage                                            *)
MessageSignature_signMessage(message, privateKeyPem, t) ==
    LET privateKey == PrivateKeyFromPem(privateKeyPem)
        messageHash == createMessageHash(message, t) IN
    IF ~privateKey.ok THEN Err("Falha na assinatura da mensagem")
    ELSE Ok([signature |-> Encode64(RsaSign(Sha256(messageHash), privateKey.val)),
             messageHash |-> messageHash,
             algorithm |-> "SHA256withRSA"])

(* MessageSignature.verifySignature                                        *)
(* Every step is inside the try; the catch returns an invalid verdict.     *)
MessageSignature_verifySignature(message, signature, publicKeyPem, t) ==
    LET publicKey == PublicKeyFromPem(publicKeyPem)
        messageHash == createMessageHash(message, t)
        signatureBytes == Decode64(signature) IN
    IF ~publicKey.ok \/ message = Undefined \/ ~signatureBytes.ok
    THEN [valid |-> FALSE, reason |-> "Erro na verificacao da assinatura"]
    ELSE LET verified == RsaVerify(Sha256(messageHash), signatureBytes.val, publicKey.val) IN
         [valid |-> verified, messageHash |-> messageHash,
          reason |-> IF verified THEN "Assinatura valida" ELSE "Assinatura invalida"]

----------------------------------------------------------------------------
(* Server tables, requests in flight and browser state                     *)

UserIds == 1..NUsers
CertIds == 1..MaxCerts
ReqIds == 1..NReq

NoUser == [none |-> TRUE]
Idle == [kind |-> "idle"]
NoResp == [route |-> "none", status |-> 0]

Registered(u) == users[u] # NoUser
UserInfo(u) == [username |-> u, email |-> u]
PasswordOf(u) == Text("senha-do-usuario")
WrongPassword == Text("outra-senha")
Bcrypt(pw) == [bcrypt |-> pw]
BcryptCompare(pw, hash) == hash = Bcrypt(pw)

(* Key pairs and serial numbers are fresh: one per certificate ever made.  *)
FreshKeyId == Len(certs) + 1

CertificateRow(id, userId, data, publicKeyPem, t) ==
    [id |-> id, userId |-> userId,
     serialNumber |-> data.serialNumber,
     publicKeyPem |-> publicKeyPem,
     certificatePem |-> data.certificate,
     subject |-> data.subject,
     issuer |-> data.issuer,
     validFrom |-> data.validFrom,
     validTo |-> data.validTo,
     isRevoked |-> FALSE,
     revokedAt |-> NoTime,
     revocationReason |-> Undefined,
     createdAt |-> t]

(* where: { userId, isRevoked: false }                                     *)
ActiveCertIds(u) == {c \in DOMAIN certs : certs[c].userId = u /\ ~certs[c].isRevoked}

(* orderBy: { createdAt: 'desc' }, take 1.  Ids grow with creation.        *)
Latest(ids) == CHOOSE c \in ids : \A d \in ids : d <= c

(* MessageSignature.verifyMessage, both call shapes.  Every step is inside *)
(* the try; the catch returns false.  The sender id of the second shape    *)
(* is a string: Text(u) is the string of user id u.                        *)
verifyMessage(arg1, signature, arg3, arg4, t) ==
    IF TypeOf(arg1) = "object" /\ TypeOf(arg3) = "string" /\ TypeOf(arg4) = "string"
    THEN LET publicKey == PublicKeyFromPem(arg4)
             signatureBytes == Decode64(signature) IN
         IF ~publicKey.ok \/ ~signatureBytes.ok THEN JsBoolean(FALSE)
         ELSE LET signatureValid == RsaVerify(Sha256(arg3), signatureBytes.val, publicKey.val)
                  normalized ==
                      [content |-> arg1.content,
                       sender |-> IF "sender" \in DOMAIN arg1 THEN arg1.sender
                                  ELSE arg1.senderId,
                       recipient |-> IF "recipient" \in DOMAIN arg1 THEN arg1.recipient
                                     ELSE arg1.receiverId,
                       timestamp |-> arg1.timestamp]
                  hashValid == createMessageHash(normalized, t) = arg3 IN
              [valid |-> signatureValid /\ hashValid,
               signatureValid |-> signatureValid,
               hashValid |-> hashValid]
    ELSE IF TypeOf(arg1) = "string" /\ TypeOf(arg3) = "string" /\ TypeOf(arg4) = "undefined"
    THEN LET active == {c \in DOMAIN certs : /\ Text(certs[c].userId) = arg3
                                              /\ ~certs[c].isRevoked
                                              /\ certs[c].validTo >= t}
             known == {u \in UserIds : Text(u) = arg3 /\ Registered(u)}
             keyPem == IF active # {} THEN certs[Latest(active)].publicKeyPem
                       ELSE IF known # {} THEN users[CHOOSE u \in known : TRUE].publicKey
                       ELSE Undefined IN
         IF keyPem = Undefined THEN JsBoolean(FALSE)
         ELSE JsBoolean(verifySignature(arg1, signature, keyPem))
    ELSE JsBoolean(FALSE)

(* The browser's storage: the keys of sessionStorage and localStorage the  *)
(* application writes.                                                     *)
EmptyStorage ==
    [authToken |-> Undefined, userData |-> Undefined, userCertificate |-> Undefined,
     tempPassword |-> Undefined]
Token(u) == [jwt |-> u]
NoSocket == 0         \* clients.get(userId) of a user without an entry
NoUserId == 0         \* ws.userId of a connection that was not authenticated
Builds == {"first", "second"}

(* new WebSocketService(): the fields the constructor sets, with the       *)
(* WebSocket objects the service has created (none yet), the number of     *)
(* reconnect timers waiting, the code of the last close event delivered,   *)
(* whether the Dashboard is mounted, and whether disconnect() was called   *)
(* since the application last called connect().                            *)
maxReconnectAttempts == 5
NoCloseEvent == 0     \* no close event was delivered yet
WebSocketServiceConstructor ==
    [ws |-> NoSocket, isConnected |-> FALSE, reconnectAttempts |-> 0,
     webSockets |-> <<>>, timers |-> 0, closeCode |-> NoCloseEvent,
     mounted |-> FALSE, disconnected |-> FALSE]

SysInit ==
    /\ now = 0
    /\ users = [u \in UserIds |-> NoUser]
    /\ certs = <<>>
    /\ messages = <<>>
    /\ pending = [r \in ReqIds |-> Idle]
    /\ resp = NoResp
    /\ serverKeys = {}
    /\ revokeOk = [c \in CertIds |-> 0]
    /\ clientCert = [u \in UserIds |-> Undefined]
    /\ view = [u \in UserIds |-> <<>>]
    /\ served = 0
    /\ storage = [u \in UserIds |-> EmptyStorage]
    /\ sockets = <<>>
    /\ clients = [u \in UserIds |-> NoSocket]
    /\ websocketService = WebSocketServiceConstructor

(* The server accepts one more request.                                    *)
Serve == served < MaxRequests /\ served' = served + 1

(* Time passes between two requests.  The clock is observed at instants    *)
(* more than a year apart: a certificate is within its validity period at  *)
(* the instant it was made and past it at the next.                        *)
Tick ==
    /\ now + OneYear + 1 <= MaxTime
    /\ now' = now + OneYear + 1
    /\ UNCHANGED <<users, certs, messages, pending, resp, serverKeys, revokeOk,
                   clientCert, view, served>>
    /\ UNCHANGED <<labVars, otherVars>>

(* The random values of the i-th message sent.                             *)
RandomFor(i) ==
    LET w == <<(37 * i) % 256>> IN
    [key |-> WordArray(w \o w), iv |-> WordArray(<<(w[1] + 1) % 256>>),
     salt |-> WordArray(w)]

(* AuthContext.register with POST /api/auth/register: the browser makes    *)
(* the key pair and the certificate, the server validates and stores the   *)
(* certificate, the browser keeps the private key in its state.            *)
Register(u) ==
    LET generated == generateKeyPairWithCertificate(UserInfo(u), FreshKeyId, now)
        encryptedPrivateKeyData ==
            encryptPrivateKeyWithPassword(generated.privateKey, PasswordOf(u),
                                          RandomFor(FreshKeyId))
        request == [username |-> u, email |-> u, password |-> PasswordOf(u),
                    certificate |-> generated.certificate]
        certValidation == validateSelfSignedCertificate(request.certificate, now)
        certificateData == extractCertificateData(request.certificate)
        row == CertificateRow(Len(certs) + 1, u, certificateData,
                              certificateData.publicKeyPem, now) IN
    /\ Serve
    /\ Len(certs) < MaxCerts
    /\ IF ~certValidation.valid
       THEN /\ resp' = [route |-> "POST /auth/register", status |-> 400, request |-> request,
                        body |-> [error |-> certValidation.reason]]
            /\ UNCHANGED <<users, certs, clientCert, storage>>
       ELSE IF certificateData.commonName # request.username
               \/ certificateData.email # request.email
       THEN /\ resp' = [route |-> "POST /auth/register", status |-> 400, request |-> request,
                        body |-> [error |-> "certificado nao corresponde"]]
            /\ UNCHANGED <<users, certs, clientCert, storage>>
       ELSE IF Registered(u)
       THEN /\ resp' = [route |-> "POST /auth/register", status |-> 409, request |-> request,
                        body |-> [error |-> "Usuario ou email ja existe"]]
            /\ UNCHANGED <<users, certs, clientCert, storage>>
       ELSE /\ users' = [users EXCEPT ![u] =
                            [username |-> u, email |-> u,
                             password |-> Bcrypt(request.password),
                             publicKey |-> certificateData.publicKeyPem,
                             isActive |-> TRUE]]
            /\ certs' = Append(certs, row)
            /\ resp' = [route |-> "POST /auth/register", status |-> 200, request |-> request,
                        body |-> [certificate |->
                                     [id |-> row.id, serialNumber |-> row.serialNumber,
                                      publicKeyPem |-> row.publicKeyPem,
                                      certificatePem |-> row.certificatePem]]]
            /\ clientCert' = [clientCert EXCEPT ![u] =
                                 [id |-> row.id, serialNumber |-> row.serialNumber,
                                  publicKeyPem |-> row.publicKeyPem,
                                  certificatePem |-> row.certificatePem,
                                  encryptedPrivateKey |-> encryptedPrivateKeyData,
                                  privateKey |-> IF build = "first" THEN Undefined
                                                 ELSE generated.privateKey]]
            /\ storage' = [storage EXCEPT ![u] =
                              [@ EXCEPT !.authToken = Token(u),
                                        !.userData = UserInfo(u),
                                        !.userCertificate =
                                            [id |-> row.id,
                                             serialNumber |-> row.serialNumber,
                                             publicKeyPem |-> row.publicKeyPem,
                                             certificatePem |-> row.certificatePem,
                                             encryptedPrivateKey |->
                                                 encryptedPrivateKeyData]]]
    /\ UNCHANGED <<now, messages, pending, serverKeys, revokeOk, view>>
    /\ UNCHANGED <<labVars, build, websocketService, wsVars>>

(* AuthContext.getPrivateKey                                               *)
getPrivateKey(certificate) ==
    IF certificate = Undefined THEN Err("Certificado nao encontrado")
    ELSE IF Falsy(certificate.privateKey) THEN Err("Chave privada nao esta carregada")
    ELSE IF ~IncludesPemHeaders(certificate.privateKey)
    THEN Err("Chave privada nao esta em formato PEM valido")
    ELSE Ok(certificate.privateKey)

SendTexts == {Text("hello bob")}

(* wsServer.sendToUser(recipientId, 'new_message', {...}) of POST          *)
(* /api/messages, sent when the recipient is online.                       *)
NewMessagePush(row) ==
    [id |-> row.id, content |-> row.content, encryptedKey |-> row.encryptedKey,
     senderEncryptedKey |-> row.senderEncryptedKey, iv |-> row.iv,
     contentHash |-> row.contentHash, signature |-> row.signature,
     sender |-> row.senderId, receiver |-> row.receiverId,
     createdAt |-> row.createdAt, isEncrypted |-> row.isEncrypted]

(* Dashboard.sendMessage with POST /api/messages                           *)
SendMessage(s, r, m) ==
    LET privateKey == getPrivateKey(clientCert[s])
        encryptedData == encryptMessage(m, users[r].publicKey, privateKey.val,
                                        RandomFor(Len(messages) + 1))
        e == encryptedData.val
        request == [recipientId |-> r, encryptedMessage |-> e.encryptedMessage,
                    encryptedKey |-> e.encryptedKey,
                    senderEncryptedKey |-> e.senderEncryptedKey,
                    iv |-> e.iv, signature |-> e.signature, messageHash |-> e.messageHash]
        row == [id |-> Len(messages) + 1,
                content |-> request.encryptedMessage,
                encryptedKey |-> request.encryptedKey,
                senderEncryptedKey |-> request.senderEncryptedKey,
                iv |-> request.iv,
                contentHash |-> request.messageHash,
                signature |-> request.signature,
                senderId |-> s, receiverId |-> r,
                isEncrypted |-> TRUE, isRead |-> FALSE, readAt |-> NoTime,
                createdAt |-> now] IN
    /\ Serve
    /\ s # r
    /\ Registered(s) /\ Registered(r)
    /\ Len(messages) < MaxMessages
    /\ privateKey.ok
    /\ encryptedData.ok
    /\ IF \/ Falsy(request.encryptedMessage) \/ Falsy(request.encryptedKey)
          \/ Falsy(request.iv) \/ Falsy(request.signature) \/ Falsy(request.messageHash)
       THEN /\ resp' = [route |-> "POST /messages", status |-> 400, request |-> request,
                        body |-> [message |-> "Todos os campos sao obrigatorios"]]
            /\ UNCHANGED messages
       ELSE /\ messages' = Append(messages, row)
            /\ \E online \in BOOLEAN :
                   resp' = [route |-> "POST /messages", status |-> 201, request |-> request,
                            body |-> [messageId |-> row.id, delivered |-> online],
                            push |-> IF online THEN NewMessagePush(row) ELSE Undefined]
    /\ UNCHANGED <<now, users, certs, pending, serverKeys, revokeOk, clientCert, view>>
    /\ UNCHANGED <<labVars, otherVars>>

(* The key a signature was made with, and whether a certificate for that   *)
(* key is revoked (read by the claims, not by the program).                *)
SignerOf(msg) ==
    LET signature == Decode64(msg.signature) IN
    IF signature.ok /\ "signer" \in DOMAIN signature.val THEN signature.val.signer ELSE 0
KeyRevoked(keyId) ==
    \E c \in DOMAIN certs : certs[c].publicKeyPem.n = keyId /\ certs[c].isRevoked

(* Dashboard.loadMessages, one message.  The sent-by-me branch is the one  *)
(* taken when the plaintext cache of the component is empty.               *)
ProcessMessage(msg, me, g) ==
    LET privateKey == getPrivateKey(clientCert[me])
        failed == [id |-> msg.id, content |-> Text("Erro ao descriptografar mensagem"),
                   isDecrypted |-> FALSE, signatureValid |-> "false",
                   isSentByMe |-> "undefined", senderRevoked |-> KeyRevoked(SignerOf(msg))]
    IN
    IF msg.senderId = me
    THEN IF ~privateKey.ok THEN failed
         ELSE IF ~Falsy(msg.senderEncryptedKey)
         THEN LET decryptedContent == decryptMessage(msg.content, msg.senderEncryptedKey,
                                                     msg.iv, privateKey.val, g) IN
              IF ~decryptedContent.ok THEN failed
              ELSE [id |-> msg.id, content |-> decryptedContent.val,
                    isDecrypted |-> TRUE, signatureValid |-> "undefined",
                    isSentByMe |-> "true", senderRevoked |-> KeyRevoked(SignerOf(msg))]
         ELSE [id |-> msg.id, content |-> Text("Mensagem enviada (conteudo criptografado)..."),
               isDecrypted |-> FALSE, signatureValid |-> "undefined",
               isSentByMe |-> "true", senderRevoked |-> KeyRevoked(SignerOf(msg))]
    ELSE IF ~privateKey.ok THEN failed
         ELSE LET senderData == [publicKey |-> users[msg.senderId].publicKey]
                  decryptedContent == decryptMessage(msg.content, msg.encryptedKey,
                                                     msg.iv, privateKey.val, g) IN
              IF ~decryptedContent.ok THEN failed
              ELSE [id |-> msg.id, content |-> decryptedContent.val,
                    isDecrypted |-> TRUE,
                    signatureValid |->
                        IF verifySignature(decryptedContent.val, msg.signature,
                                           senderData.publicKey)
                        THEN "true" ELSE "false",
                    isSentByMe |-> "false", senderRevoked |-> KeyRevoked(SignerOf(msg))]

InConversation(msg, a, b) ==
    \/ msg.senderId = a /\ msg.receiverId = b
    \/ msg.senderId = b /\ msg.receiverId = a

(* Dashboard.loadMessages with GET /api/messages/conversation/:userId,     *)
(* which marks the caller's received messages of the conversation read.    *)
LoadMessages(me, other) ==
    \E g \in GarbageOutcomes :
        LET conversation == SelectSeq(messages, LAMBDA msg : InConversation(msg, me, other)) IN
        /\ Serve
        /\ me # other
        /\ Registered(me) /\ Registered(other)
        /\ messages' = [i \in DOMAIN messages |->
                           IF /\ messages[i].senderId = other
                              /\ messages[i].receiverId = me
                              /\ ~messages[i].isRead
                           THEN [messages[i] EXCEPT !.isRead = TRUE, !.readAt = now]
                           ELSE messages[i]]
        /\ view' = [view EXCEPT ![me] =
                       [i \in DOMAIN conversation |-> ProcessMessage(conversation[i], me, g)]]
        /\ resp' = [route |-> "GET /messages/conversation", status |-> 200, user |-> me,
                    body |-> [messages |-> conversation]]
        /\ UNCHANGED <<now, users, certs, pending, serverKeys, revokeOk, clientCert>>
        /\ UNCHANGED <<labVars, otherVars>>

(* Values a client other than the Dashboard can put in the signature field *)
(* of an envelope for message m from sender s: text that is no signature,  *)
(* a signature by a key that belongs to nobody, and the sender's signature *)
(* over another message.                                                   *)
NobodysKey == KeyPair(0, RsaBits)
ForgedKinds == {"text", "nobody", "another"}
ForgedSignature(kind, m, senderPrivateKeyPem) ==
    IF kind = "text" THEN Text("forged")
    ELSE IF kind = "nobody" THEN signMessage(m, PrivateKeyToPem(NobodysKey)).val
    ELSE signMessage(Text("another message"), senderPrivateKeyPem).val

(* POST /api/messages with an envelope sealed by encryptMessage whose      *)
(* signature field was replaced before it was posted: the route stores     *)
(* the fields as they come.                                                *)
PostForged(s, r, m) ==
    \E kind \in ForgedKinds :
        LET privateKey == getPrivateKey(clientCert[s])
            encryptedData == encryptMessage(m, users[r].publicKey, privateKey.val,
                                            RandomFor(Len(messages) + 1))
            e == encryptedData.val
            forged == ForgedSignature(kind, m, privateKey.val)
            request == [recipientId |-> r, encryptedMessage |-> e.encryptedMessage,
                        encryptedKey |-> e.encryptedKey,
                        senderEncryptedKey |-> e.senderEncryptedKey,
                        iv |-> e.iv, signature |-> forged, messageHash |-> e.messageHash]
            row == [id |-> Len(messages) + 1,
                    content |-> request.encryptedMessage,
                    encryptedKey |-> request.encryptedKey,
                    senderEncryptedKey |-> request.senderEncryptedKey,
                    iv |-> request.iv,
                    contentHash |-> request.messageHash,
                    signature |-> request.signature,
                    senderId |-> s, receiverId |-> r,
                    isEncrypted |-> TRUE, isRead |-> FALSE, readAt |-> NoTime,
                    createdAt |-> now] IN
        /\ Serve
        /\ s # r
        /\ Registered(s) /\ Registered(r)
        /\ Len(messages) < MaxMessages
        /\ privateKey.ok
        /\ encryptedData.ok
        /\ IF \/ Falsy(request.encryptedMessage) \/ Falsy(request.encryptedKey)
              \/ Falsy(request.iv) \/ Falsy(request.signature) \/ Falsy(request.messageHash)
           THEN /\ resp' = [route |-> "POST /messages", status |-> 400, request |-> request,
                            body |-> [message |-> "Todos os campos sao obrigatorios"]]
                /\ UNCHANGED messages
           ELSE /\ messages' = Append(messages, row)
                /\ \E online \in BOOLEAN :
                       resp' = [route |-> "POST /messages", status |-> 201, request |-> request,
                                body |-> [messageId |-> row.id, delivered |-> online],
                                push |-> IF online THEN NewMessagePush(row) ELSE Undefined]
        /\ UNCHANGED <<now, users, certs, pending, serverKeys, revokeOk, clientCert, view>>
        /\ UNCHANGED <<labVars, otherVars>>

(* A request that suspends takes the first free slot.                     *)
FreeSlot(r) == pending[r] = Idle /\ \A q \in ReqIds : q < r => pending[q] # Idle

Reasons == {Undefined, Text("chave comprometida")}

(* PATCH /api/certificates/:certificateId/revoke up to its second await:   *)
(* the reason check, the findFirst and the isRevoked check.                *)
RevokeBegin(r, u, certificateId, reason) ==
    LET found == certificateId \in DOMAIN certs /\ certs[certificateId].userId = u IN
    /\ Serve
    /\ FreeSlot(r)
    /\ Registered(u)
    /\ IF Falsy(reason)
       THEN /\ resp' = [route |-> "PATCH /certificates/revoke", status |-> 400,
                        body |-> [message |-> "Motivo da revogacao e obrigatorio"]]
            /\ UNCHANGED pending
       ELSE IF ~found
       THEN /\ resp' = [route |-> "PATCH /certificates/revoke", status |-> 404,
                        body |-> [message |-> "Certificado nao encontrado"]]
            /\ UNCHANGED pending
       ELSE IF certs[certificateId].isRevoked
       THEN /\ resp' = [route |-> "PATCH /certificates/revoke", status |-> 400,
                        body |-> [message |-> "Certificado ja foi revogado",
                                  revokedAt |-> certs[certificateId].revokedAt]]
            /\ UNCHANGED pending
       ELSE /\ pending' = [pending EXCEPT ![r] =
                              [kind |-> "revoke", certificateId |-> certificateId,
                               reason |-> reason]]
            /\ UNCHANGED resp
    /\ UNCHANGED <<now, users, certs, messages, serverKeys, revokeOk, clientCert, view>>
    /\ UNCHANGED <<labVars, otherVars>>

(* PATCH /api/certificates/:certificateId/revoke from the update on.       *)
(* revokeOk counts the 200 answers given for each certificate.             *)
RevokeCommit(r) ==
    LET certificateId == pending[r].certificateId
        updatedCertificate == [certs[certificateId] EXCEPT
                                  !.isRevoked = TRUE,
                                  !.revokedAt = now,
                                  !.revocationReason = pending[r].reason] IN
    /\ pending[r].kind = "revoke"
    /\ certs' = [certs EXCEPT ![certificateId] = updatedCertificate]
    /\ resp' = [route |-> "PATCH /certificates/revoke", status |-> 200,
                body |-> [message |-> "Certificado revogado com sucesso",
                          certificateId |-> updatedCertificate.id,
                          revokedAt |-> updatedCertificate.revokedAt]]
    /\ revokeOk' = [revokeOk EXCEPT ![certificateId] = @ + 1]
    /\ pending' = [pending EXCEPT ![r] = Idle]
    /\ UNCHANGED <<now, users, messages, serverKeys, clientCert, view, served>>
    /\ UNCHANGED <<labVars, otherVars>>

RegenPasswords(u) == {Undefined, WrongPassword, PasswordOf(u)}

(* POST /api/users/certificate/regenerate up to the transaction: the       *)
(* password check, the findUnique that includes the non-revoked            *)
(* certificates, and bcrypt.compare.                                       *)
RegenBegin(r, u, password) ==
    LET request == [password |-> password]
        user == users[u] IN
    /\ Serve
    /\ FreeSlot(r)
    /\ Registered(u)
    /\ Len(certs) < MaxCerts
    /\ IF Falsy(password)
       THEN /\ resp' = [route |-> "POST /users/certificate/regenerate", status |-> 400,
                        request |-> request, body |-> [error |-> "Password e obrigatorio"]]
            /\ UNCHANGED pending
       ELSE IF ~BcryptCompare(password, user.password)
       THEN /\ resp' = [route |-> "POST /users/certificate/regenerate", status |-> 401,
                        request |-> request, body |-> [error |-> "Senha incorreta"]]
            /\ UNCHANGED pending
       ELSE /\ pending' = [pending EXCEPT ![r] =
                              [kind |-> "regenerate", user |-> u, password |-> password,
                               certificates |-> ActiveCertIds(u)]]
            /\ UNCHANGED resp
    /\ UNCHANGED <<now, users, certs, messages, serverKeys, revokeOk, clientCert, view>>
    /\ UNCHANGED <<labVars, otherVars>>

(* updateMany where: { userId, isRevoked: false }, data: { isRevoked:      *)
(* true, revokedAt }.  The statement runs inside an interactive            *)
(* transaction at the database's default isolation (read committed): it    *)
(* selects among the rows committed when it starts (snapshot), and         *)
(* re-checks isRevoked on each row when it gets the row's lock.            *)
UpdateManyRevoke(table, snapshot, u, t) ==
    [c \in DOMAIN table |->
        IF c \in snapshot /\ table[c].userId = u /\ ~table[c].isRevoked
        THEN [table[c] EXCEPT !.isRevoked = TRUE, !.revokedAt = t]
        ELSE table[c]]

(* The rows the updateMany of a suspended regeneration can have seen: the  *)
(* statement started no earlier than the findUnique and no later than the  *)
(* commit.                                                                 *)
Snapshots(r) ==
    IF pending[r].kind = "regenerate"
    THEN {pending[r].certificates, ActiveCertIds(pending[r].user)}
    ELSE {}

(* POST /api/users/certificate/regenerate: the transaction and the answer, *)
(* then AuthContext.regenerateCertificate (the second definition of the    *)
(* context; the first has none) persisting the certificate with the        *)
(* encrypted key and keeping the private key in its state.                 *)
(* serverKeys collects the key pairs that were generated on the server.    *)
RegenCommit(r) ==
    \E snapshot \in Snapshots(r) :
        LET u == pending[r].user
            revoked == IF pending[r].certificates # {}
                       THEN UpdateManyRevoke(certs, snapshot, u, now) ELSE certs
            certificateData == generateUserCertificate(UserInfo(u), FreshKeyId, now)
            newCertificate == CertificateRow(Len(certs) + 1, u, certificateData,
                                             certificateData.publicKey, now)
            cert == [id |-> newCertificate.id,
                     serialNumber |-> newCertificate.serialNumber,
                     publicKeyPem |-> newCertificate.publicKeyPem,
                     certificatePem |-> newCertificate.certificatePem,
                     privateKey |-> certificateData.privateKey]
            encryptedData ==
                encryptPrivateKeyWithPassword(cert.privateKey, pending[r].password,
                                              RandomFor(FreshKeyId))
            certificateToPersist ==
                [id |-> cert.id, serialNumber |-> cert.serialNumber,
                 publicKeyPem |-> cert.publicKeyPem,
                 certificatePem |-> cert.certificatePem,
                 encryptedPrivateKey |-> encryptedData]
            certificateInState ==
                [id |-> cert.id, serialNumber |-> cert.serialNumber,
                 publicKeyPem |-> cert.publicKeyPem,
                 certificatePem |-> cert.certificatePem,
                 encryptedPrivateKey |-> encryptedData,
                 privateKey |-> cert.privateKey] IN
        /\ pending[r].kind = "regenerate"
        /\ Len(certs) < MaxCerts
        /\ certs' = Append(revoked, newCertificate)
        /\ users' = [users EXCEPT ![u].publicKey = certificateData.publicKey]
        /\ serverKeys' = serverKeys \cup {FreshKeyId}
        /\ resp' = [route |-> "POST /users/certificate/regenerate", status |-> 200,
                    request |-> [password |-> pending[r].password],
                    body |-> [message |-> "Certificado regenerado com sucesso",
                              certificate |-> cert]]
        /\ IF build = "second"
           THEN /\ clientCert' = [clientCert EXCEPT ![u] = certificateInState]
                /\ storage' = [storage EXCEPT ![u].userCertificate = certificateToPersist]
           ELSE UNCHANGED <<clientCert, storage>>
        /\ pending' = [pending EXCEPT ![r] = Idle]
        /\ UNCHANGED <<now, messages, revokeOk, view, served>>
        /\ UNCHANGED <<labVars, build, websocketService, wsVars>>

(* Whether the certificate a PEM encodes is marked revoked in the table   *)
(* (read by the claims, not by the program).                               *)
PemRevoked(certificatePem) ==
    \E c \in DOMAIN certs : certs[c].certificatePem = certificatePem /\ certs[c].isRevoked

(* The body a client posts: the PEM of an issued certificate, or nothing.  *)
SubmittedPem(c) == IF c \in DOMAIN certs THEN certs[c].certificatePem ELSE Undefined

(* POST /api/certificates/verify                                           *)
VerifyPem(certificatePem) ==
    /\ Serve
    /\ IF Falsy(certificatePem)
       THEN resp' = [route |-> "POST /certificates/verify", status |-> 400,
                     body |-> [message |-> "certificatePem e obrigatorio"]]
       ELSE resp' = [route |-> "POST /certificates/verify", status |-> 200,
                     revoked |-> PemRevoked(certificatePem),
                     body |-> [verification |-> verifyCertificate(certificatePem, now)]]
    /\ UNCHANGED <<now, users, certs, messages, pending, serverKeys, revokeOk,
                   clientCert, view>>
    /\ UNCHANGED <<labVars, otherVars>>

(* GET /api/certificates/:certificateId                                    *)
GetCertificate(u, certificateId) ==
    LET found == certificateId \in DOMAIN certs /\ certs[certificateId].userId = u
        certificate == certs[certificateId] IN
    /\ Serve
    /\ Registered(u)
    /\ IF ~found
       THEN resp' = [route |-> "GET /certificates/:certificateId", status |-> 404,
                     body |-> [message |-> "Certificado nao encontrado"]]
       ELSE resp' = [route |-> "GET /certificates/:certificateId", status |-> 200,
                     revoked |-> certificate.isRevoked,
                     body |-> [certificate |->
                                  [id |-> certificate.id,
                                   serialNumber |-> certificate.serialNumber,
                                   publicKeyPem |-> certificate.publicKeyPem,
                                   isRevoked |-> certificate.isRevoked,
                                   revokedAt |-> certificate.revokedAt],
                               verification |->
                                  verifyCertificate(certificate.publicKeyPem, now)]]
    /\ UNCHANGED <<now, users, certs, messages, pending, serverKeys, revokeOk,
                   clientCert, view>>
    /\ UNCHANGED <<labVars, otherVars>>

(* GET /api/users/:userId/certificate/verify                               *)
VerifyUserCertificate(userId) ==
    LET active == ActiveCertIds(userId)
        certificate == certs[Latest(active)] IN
    /\ Serve
    /\ IF active = {}
       THEN resp' = [route |-> "GET /users/:userId/certificate/verify", status |-> 404,
                     body |-> [error |-> "Certificado nao encontrado"]]
       ELSE resp' = [route |-> "GET /users/:userId/certificate/verify", status |-> 200,
                     revoked |-> certificate.isRevoked,
                     body |-> [userId |-> userId,
                               verification |->
                                  verifyCertificate(certificate.certificatePem, now)]]
    /\ UNCHANGED <<now, users, certs, messages, pending, serverKeys, revokeOk,
                   clientCert, view>>
    /\ UNCHANGED <<labVars, otherVars>>

----------------------------------------------------------------------------
(* CryptoSpec: the pure functions of CryptoService applied to bounded      *)
(* inputs.  One call sequence at a time: seal then open, or protect then   *)
(* unprotect.                                                              *)

(* Key pairs handed to the functions: two of the size the application      *)
(* generates, one larger and one too small to wrap a session key.          *)
LabKeyBits(i) ==
    IF i % 4 = 3 THEN 2 * RsaBits
    ELSE IF i % 4 = 0 THEN RsaBits \div 4
    ELSE RsaBits
LabKeys == {KeyPair(i, LabKeyBits(i)) : i \in 1..NLabKeys}

Plaintexts == {EmptyText, Text("hello bob"), LoneSurrogate}
Passwords == {Text(""), Text("senha-numero-1"), Text("senha-numero-2")}
NotAKey == Text("not a key")
ProtectInputs == {PrivateKeyToPem(k) : k \in LabKeys} \cup {NotAKey}

NoCall == [called |-> FALSE]

LabInit ==
    /\ labEnv = NoCall
    /\ labOpen = NoCall
    /\ labBlob = NoCall
    /\ labUnprot = NoCall
    /\ labSigned = NoCall
    /\ labVerified = NoCall
    /\ labCall = NoCall

(* encryptMessage(m, pubR, privS)                                          *)
LabSeal ==
    \E m \in Plaintexts, r \in LabKeys, s \in LabKeys, rnd \in Randoms :
        /\ ~labEnv.called /\ ~labBlob.called
        /\ labEnv' = [called |-> TRUE, m |-> m, recipient |-> r, sender |-> s,
                      res |-> encryptMessage(m, PublicKeyToPem(r), PrivateKeyToPem(s), rnd)]
        /\ labOpen' = NoCall
        /\ labBlob' = NoCall
        /\ labUnprot' = NoCall
        /\ UNCHANGED <<labSigned, labVerified, labCall>>
        /\ UNCHANGED <<sysVars, otherVars>>

(* decryptMessage(encryptedMessage, encryptedKey, iv, priv)                *)
LabOpenRecipient ==
    \E k \in LabKeys, g \in GarbageOutcomes :
        /\ labEnv.called /\ labEnv.res.ok
        /\ labOpen' = [called |-> TRUE, role |-> "recipient", key |-> k,
                       res |-> decryptMessage(labEnv.res.val.encryptedMessage,
                                              labEnv.res.val.encryptedKey,
                                              labEnv.res.val.iv,
                                              PrivateKeyToPem(k), g)]
        /\ UNCHANGED <<labEnv, labBlob, labUnprot>>
        /\ UNCHANGED <<labSigned, labVerified, labCall>>
        /\ UNCHANGED <<sysVars, otherVars>>

(* decryptMessage(encryptedMessage, senderEncryptedKey, iv, priv)          *)
LabOpenSender ==
    \E k \in LabKeys, g \in GarbageOutcomes :
        /\ labEnv.called /\ labEnv.res.ok
        /\ labOpen' = [called |-> TRUE, role |-> "sender", key |-> k,
                       res |-> decryptMessage(labEnv.res.val.encryptedMessage,
                                              labEnv.res.val.senderEncryptedKey,
                                              labEnv.res.val.iv,
                                              PrivateKeyToPem(k), g)]
        /\ UNCHANGED <<labEnv, labBlob, labUnprot>>
        /\ UNCHANGED <<labSigned, labVerified, labCall>>
        /\ UNCHANGED <<sysVars, otherVars>>

(* encryptPrivateKeyWithPassword(k, p)                                     *)
LabProtect ==
    \E k \in ProtectInputs, p \in Passwords, rnd \in Randoms :
        /\ ~labEnv.called /\ ~labBlob.called
        /\ labBlob' = [called |-> TRUE, k |-> k, password |-> p,
                       blob |-> encryptPrivateKeyWithPassword(k, p, rnd)]
        /\ labUnprot' = NoCall
        /\ labEnv' = NoCall
        /\ labOpen' = NoCall
        /\ UNCHANGED <<labSigned, labVerified, labCall>>
        /\ UNCHANGED <<sysVars, otherVars>>

(* decryptPrivateKeyWithPassword(blob, p)                                  *)
LabUnprotect ==
    \E p \in Passwords, g \in GarbageOutcomes :
        /\ labBlob.called
        /\ labUnprot' = [called |-> TRUE, password |-> p,
                         res |-> decryptPrivateKeyWithPassword(labBlob.blob, p, g)]
        /\ UNCHANGED <<labEnv, labOpen, labBlob>>
        /\ UNCHANGED <<labSigned, labVerified, labCall>>
        /\ UNCHANGED <<sysVars, otherVars>>

LabNext ==
    \/ LabSeal
    \/ LabOpenRecipient
    \/ LabOpenSender
    \/ LabProtect
    \/ LabUnprotect

CryptoInit == LabInit /\ SysInit /\ build = "second"
CryptoNext == LabNext
CryptoSpec == CryptoInit /\ [][CryptoNext]_vars

----------------------------------------------------------------------------
(* TamperSpec: an envelope is sealed, one bit of its ciphertext is changed *)
(* and it is opened.                                                       *)

LabFlipBit ==
    /\ labEnv.called /\ labEnv.res.ok
    /\ "flipped" \notin DOMAIN labEnv
    /\ labEnv' = [called |-> TRUE, m |-> labEnv.m, recipient |-> labEnv.recipient,
                  sender |-> labEnv.sender, flipped |-> TRUE,
                  res |-> Ok([labEnv.res.val EXCEPT
                                 !.encryptedMessage = FlipBit(@)])]
    /\ labOpen' = NoCall
    /\ UNCHANGED <<labBlob, labUnprot, labSigned, labVerified, labCall>>
    /\ UNCHANGED <<sysVars, otherVars>>

TamperNext ==
    \/ LabSeal
    \/ LabFlipBit
    \/ LabOpenRecipient
    \/ LabOpenSender

TamperSpec == CryptoInit /\ [][TamperNext]_vars

----------------------------------------------------------------------------
(* SignSpec: the signing and verifying functions of the browser and of the *)
(* server applied to bounded inputs, while the clock runs.                 *)

(* Messages handed to MessageSignature: with and without a timestamp.      *)
ServerMessages ==
    {[content |-> Text("hello bob"), sender |-> Text("alice"), recipient |-> Text("bob"),
      timestamp |-> ts] : ts \in {Undefined, ToISOString(0)}}

(* CryptoService.signMessage(m, priv)                                      *)
LabSignClient ==
    \E m \in Plaintexts, k \in LabKeys :
        /\ labSigned' = [called |-> TRUE, side |-> "client", m |-> m, key |-> k,
                         res |-> signMessage(m, PrivateKeyToPem(k))]
        /\ labVerified' = NoCall
        /\ UNCHANGED <<labEnv, labOpen, labBlob, labUnprot, labCall>>
        /\ UNCHANGED <<sysVars, otherVars>>

(* MessageSignature.signMessage(message, priv)                             *)
LabSignServer ==
    \E m \in ServerMessages, k \in LabKeys :
        /\ labSigned' = [called |-> TRUE, side |-> "server", m |-> m, key |-> k,
                         res |-> MessageSignature_signMessage(m, PrivateKeyToPem(k), now)]
        /\ labVerified' = NoCall
        /\ UNCHANGED <<labEnv, labOpen, labBlob, labUnprot, labCall>>
        /\ UNCHANGED <<sysVars, otherVars>>

(* verifySignature(m, sign(m, priv), pub) on the signature just made       *)
LabVerifySigned ==
    \E k \in LabKeys :
        /\ labSigned.called /\ labSigned.res.ok
        /\ labVerified' =
               [called |-> TRUE, fn |-> "signed", key |-> k,
                res |-> IF labSigned.side = "client"
                        THEN verifySignature(labSigned.m, labSigned.res.val,
                                             PublicKeyToPem(k))
                        ELSE MessageSignature_verifySignature(
                                 labSigned.m, labSigned.res.val.signature,
                                 PublicKeyToPem(k), now).valid]
        /\ UNCHANGED <<labEnv, labOpen, labBlob, labUnprot, labSigned, labCall>>
        /\ UNCHANGED <<sysVars, otherVars>>

(* The arguments a verification is called with after a signing: those of  *)
(* the signing, or another message, text that is no signature, a missing   *)
(* argument, text that is no key, or the private key.                      *)
VerifyArguments ==
    LET signature == IF labSigned.side = "client" THEN labSigned.res.val
                     ELSE labSigned.res.val.signature
        another == IF labSigned.side = "client" THEN Text("another message")
                   ELSE [labSigned.m EXCEPT !.content = Text("another message")]
        messages_ == {labSigned.m, another, Undefined}
        signatures == {signature, Text("forged"), Undefined}
        keys == {PublicKeyToPem(labSigned.key), NotAKey, Undefined,
                 PrivateKeyToPem(labSigned.key)}
        thirds == IF labSigned.side = "client" THEN {Text(u) : u \in UserIds}
                  ELSE {labSigned.res.val.messageHash, Undefined} IN
    [fn : {"verifySignature"}, side : {labSigned.side}, a1 : messages_, a2 : signatures,
     a3 : keys, a4 : {Undefined}]
    \cup [fn : {"verifyMessage"}, side : {"server"}, a1 : messages_, a2 : signatures,
          a3 : thirds,
          a4 : IF labSigned.side = "client" THEN {Undefined} ELSE keys]

(* verifySignature (client or server) or verifyMessage on any arguments    *)
LabVerifyAny ==
    /\ labSigned.called /\ labSigned.res.ok
    /\ \E args \in VerifyArguments :
           labVerified' =
               [called |-> TRUE, fn |-> args.fn, args |-> args,
                out |-> IF args.fn = "verifyMessage"
                        THEN Ok(verifyMessage(args.a1, args.a2, args.a3, args.a4, now))
                        ELSE IF args.side = "client"
                        THEN LET call == verifySignatureCall(args.a1, args.a2, args.a3) IN
                             IF call.ok THEN Ok(JsBoolean(call.val)) ELSE call
                        ELSE Ok(MessageSignature_verifySignature(args.a1, args.a2,
                                                                 args.a3, now))]
    /\ UNCHANGED <<labEnv, labOpen, labBlob, labUnprot, labSigned, labCall>>
    /\ UNCHANGED <<sysVars, otherVars>>

SignNext ==
    \/ Tick
    \/ LabSignClient
    \/ LabSignServer
    \/ LabVerifySigned
    \/ LabVerifyAny

SignSpec == CryptoInit /\ [][SignNext]_vars

----------------------------------------------------------------------------
(* Spec: registration, messaging and the certificate lifecycle             *)

Init == SysInit /\ LabInit /\ build = "second"

Next ==
    \/ Tick
    \/ \E u \in UserIds : Register(u)
    \/ \E s \in UserIds, r \in UserIds, m \in SendTexts : SendMessage(s, r, m)
    \/ \E me \in UserIds, other \in UserIds : LoadMessages(me, other)
    \/ \E r \in ReqIds, u \in UserIds, c \in CertIds, reason \in Reasons :
           RevokeBegin(r, u, c, reason)
    \/ \E r \in ReqIds : RevokeCommit(r)
    \/ \E r \in ReqIds, u \in UserIds : \E password \in RegenPasswords(u) :
           RegenBegin(r, u, password)
    \/ \E r \in ReqIds : RegenCommit(r)
    \/ \E c \in CertIds : VerifyPem(SubmittedPem(c))
    \/ \E u \in UserIds, c \in CertIds : GetCertificate(u, c)
    \/ \E u \in UserIds : VerifyUserCertificate(u)

Spec == Init /\ [][Next]_vars

----------------------------------------------------------------------------
(* TrustSpec: registration and messaging while the clock stands still,    *)
(* with envelopes that were changed before they reached the server        *)

TrustNext ==
    \/ \E u \in UserIds : Register(u)
    \/ \E s \in UserIds, r \in UserIds, m \in SendTexts : SendMessage(s, r, m)
    \/ \E s \in UserIds, r \in UserIds, m \in SendTexts : PostForged(s, r, m)
    \/ \E me \in UserIds, other \in UserIds : LoadMessages(me, other)

TrustSpec == Init /\ [][TrustNext]_vars

----------------------------------------------------------------------------
(* Claims about the pure functions (checked under CryptoSpec)              *)

(* C1: opening a sealed envelope with the recipient's private key and the  *)
(* recipient key wrap returns exactly the plaintext that was sealed.       *)
C1_HybridRoundTripRecipient ==
    (labOpen.called /\ labOpen.role = "recipient" /\ labOpen.key = labEnv.recipient)
        => labOpen.res = Ok(labEnv.m)

C1_Witness ==
    /\ labOpen.called /\ labOpen.role = "recipient"
    /\ labOpen.key = labEnv.recipient
    /\ labEnv.sender # labEnv.recipient
    /\ labEnv.m = Text("hello bob")
    /\ labOpen.res.ok

(* C2: opening a sealed envelope with the sender's own private key and the *)
(* sender key wrap (encrypt-to-self) returns exactly the plaintext.        *)
C2_HybridRoundTripSender ==
    (labOpen.called /\ labOpen.role = "sender" /\ labOpen.key = labEnv.sender)
        => labOpen.res = Ok(labEnv.m)

C2_Witness ==
    /\ labOpen.called /\ labOpen.role = "sender"
    /\ labOpen.key = labEnv.sender
    /\ labEnv.sender # labEnv.recipient
    /\ labEnv.m = Text("hello bob")
    /\ labOpen.res.ok

(* C3: unprotecting a protected private key with the same password returns *)
(* exactly that private key.                                               *)
C3_PrivateKeyRoundTrip ==
    (/\ labUnprot.called
     /\ labUnprot.password = labBlob.password
     /\ PemType(labBlob.k) = "RSA PRIVATE KEY")
        => labUnprot.res = Ok(labBlob.k)

C3_Witness ==
    /\ labUnprot.called
    /\ labUnprot.password = labBlob.password
    /\ PemType(labBlob.k) = "RSA PRIVATE KEY"
    /\ labUnprot.res.ok

(* C4: with another password unprotect throws; it throws whenever the      *)
(* decrypted output is empty or is not a private-key record; it never      *)
(* returns a value other than the protected key.                           *)
LooksLikePrivateKey(x) == PemType(x) = "RSA PRIVATE KEY"

C4_WrongPasswordLaw ==
    labUnprot.called =>
        /\ labUnprot.password # labBlob.password => ~labUnprot.res.ok
        /\ labUnprot.res.ok => LooksLikePrivateKey(labUnprot.res.val)
        /\ labUnprot.res.ok => labUnprot.res.val = labBlob.k

(* C17: an envelope whose ciphertext had a bit changed does not open, or   *)
(* opens to a plaintext whose hash is not the envelope's messageHash; it   *)
(* never opens to the message that was sealed.                             *)
C17_TamperDetected ==
    (/\ labOpen.called
     /\ "flipped" \in DOMAIN labEnv
     /\ labOpen.key = (IF labOpen.role = "recipient" THEN labEnv.recipient
                       ELSE labEnv.sender))
        => /\ labOpen.res.ok =>
                  hashMessage(labOpen.res.val) # labEnv.res.val.messageHash
           /\ labOpen.res # Ok(labEnv.m)

----------------------------------------------------------------------------
(* Claims about the certificate lifecycle and messaging (checked under     *)
(* Spec)                                                                   *)

(* C5: a validation of a certificate that is revoked when it is validated  *)
(* reports valid = false with reason "revoked".                            *)
C5_RevokedReportsRevoked ==
    ("revoked" \in DOMAIN resp /\ resp.revoked)
        => /\ ~resp.body.verification.valid
           /\ resp.body.verification.reason = "revoked"

(* C6: a received message whose sender's certificate is revoked when the   *)
(* recipient loads the conversation is shown with signatureValid false,    *)
(* never as verified.                                                      *)
C6_RevokedSenderNotVerified ==
    \A u \in UserIds : \A i \in DOMAIN view[u] :
        (view[u][i].isSentByMe = "false" /\ view[u][i].senderRevoked)
            => view[u][i].signatureValid = "false"

(* C7: no private key is generated on the server, stored in a server       *)
(* table, or carried in a request or a response.                           *)
CarriesPrivateKey(exchange) ==
    \/ /\ "request" \in DOMAIN exchange
       /\ "privateKey" \in DOMAIN exchange.request
    \/ /\ "body" \in DOMAIN exchange
       /\ "certificate" \in DOMAIN exchange.body
       /\ "privateKey" \in DOMAIN exchange.body.certificate

C7_PrivateKeyStaysWithOwner ==
    /\ serverKeys = {}
    /\ \A c \in DOMAIN certs : "privateKeyPem" \notin DOMAIN certs[c]
    /\ ~CarriesPrivateKey(resp)

(* C8: when a regeneration has answered 200, the new certificate is the    *)
(* only non-revoked certificate of its user.                               *)
C8_RotationLeavesOneActive ==
    (resp.route = "POST /users/certificate/regenerate" /\ resp.status = 200)
        => ActiveCertIds(certs[resp.body.certificate.id].userId)
               = {resp.body.certificate.id}

(* C9: in every step, a revoked certificate stays exactly as it is, and    *)
(* the fields of a certificate other than the revocation fields keep       *)
(* their values.                                                           *)
Issued(row) ==
    [row EXCEPT !.isRevoked = FALSE, !.revokedAt = NoTime, !.revocationReason = Undefined]

C9_RevocationMonotonic ==
    [][\A c \in DOMAIN certs :
          /\ Issued(certs'[c]) = Issued(certs[c])
          /\ certs[c].isRevoked =>
                /\ certs'[c].isRevoked
                /\ certs'[c].revokedAt = certs[c].revokedAt]_vars

(* C10: of the revoke requests made for one certificate, at most one is    *)
(* answered with success.                                                  *)
C10_AtMostOneRevokeSucceeds ==
    \A c \in CertIds : revokeOk[c] <= 1

----------------------------------------------------------------------------
(* Claims about the receive side (Dashboard.loadMessages)                  *)

(* The certificate the server holds for the sender of a message: the       *)
(* newest one issued to that user (read by the claims, not by the          *)
(* program: loadMessages fetches the sender's public key only).            *)
SenderCertificatePem(msg) ==
    certs[Latest({c \in DOMAIN certs : certs[c].userId = msg.senderId})].certificatePem

(* The three checks of the receive side, on the entry loadMessages made    *)
(* of a stored message.                                                    *)
CertificateCheck(msg) == verifyCertificate(SenderCertificatePem(msg), now).valid
SignatureCheck(msg, entry) ==
    /\ entry.isDecrypted
    /\ verifySignature(entry.content, msg.signature,
                       extractCertificateData(SenderCertificatePem(msg)).publicKeyPem)
HashCheck(msg, entry) ==
    /\ entry.isDecrypted
    /\ hashMessage(entry.content) = msg.contentHash

(* The entries a load has just made of messages received by u.             *)
LoadedReceived(u) ==
    IF view'[u] = view[u] THEN {}
    ELSE {i \in DOMAIN view'[u] : messages[view'[u][i].id].receiverId = u}

(* C11: whenever a conversation is loaded, a received message is shown as  *)
(* verified if and only if the sender's certificate is valid, the          *)
(* signature over the recovered plaintext verifies under the certificate's *)
(* public key, and the hash of the recovered plaintext equals the stored   *)
(* contentHash.                                                            *)
C11_VerdictIsConjunction ==
    [][\A u \in UserIds : \A i \in LoadedReceived(u) :
          LET entry == view'[u][i]
              msg == messages[entry.id] IN
          (entry.signatureValid = "true")
              <=> /\ CertificateCheck(msg)
                  /\ SignatureCheck(msg, entry)
                  /\ HashCheck(msg, entry)]_vars

(* C12: whenever a conversation is loaded, a received message whose        *)
(* sender's certificate is invalid is not opened (no plaintext is shown    *)
(* and it is not verified), and a message that could not be opened shows   *)
(* the decryption error, which a message with a bad signature (opened,     *)
(* not verified) never shows.                                              *)
C12_EarlyFailuresShortCircuit ==
    [][\A u \in UserIds : \A i \in LoadedReceived(u) :
          LET entry == view'[u][i]
              msg == messages[entry.id] IN
          /\ ~CertificateCheck(msg) =>
                 /\ ~entry.isDecrypted
                 /\ entry.signatureValid = "false"
          /\ ~entry.isDecrypted <=>
                 entry.content = Text("Erro ao descriptografar mensagem")]_vars

(* The plaintext sealed in a stored message, and whether the stored        *)
(* signature is the sender's signature over it (read by the claims).       *)
SealedPlaintext(msg) == Decode64(msg.content).val.pt
SignatureIntact(msg) ==
    LET signature == Decode64(msg.signature) IN
    /\ signature.ok
    /\ signature.val = RsaSign(Sha256(SealedPlaintext(msg)),
                               KeyPair(clientCert[msg.senderId].privateKey.n, RsaBits))

(* C13: a received message whose signature field was replaced is shown     *)
(* with its plaintext (decrypted) and as not verified.                     *)
C13_ForgedSignatureShownUnverified ==
    \A u \in UserIds : \A i \in DOMAIN view[u] :
        LET entry == view[u][i]
            msg == messages[entry.id] IN
        (msg.receiverId = u /\ ~SignatureIntact(msg))
            => /\ entry.signatureValid = "false"
               /\ entry.isDecrypted
               /\ entry.content = SealedPlaintext(msg)

C13_Witness ==
    \E u \in UserIds : \E i \in DOMAIN view[u] :
        /\ messages[view[u][i].id].receiverId = u
        /\ SignerOf(messages[view[u][i].id]) = clientCert[messages[view[u][i].id].senderId].privateKey.n
        /\ ~SignatureIntact(messages[view[u][i].id])
        /\ view[u][i].signatureValid = "false"
        /\ view[u][i].content = Text("hello bob")

(* C14: when two users have registered and one has sent the other a        *)
(* message with the Dashboard, the recipient's load of the conversation    *)
(* shows that message with the original plaintext and as verified.         *)
C14_EndToEnd ==
    \A u \in UserIds : \A i \in DOMAIN view[u] :
        LET entry == view[u][i]
            msg == messages[entry.id] IN
        (msg.receiverId = u /\ SignatureIntact(msg))
            => /\ entry.signatureValid = "true"
               /\ entry.isDecrypted
               /\ entry.content = SealedPlaintext(msg)
               /\ entry.content \in SendTexts

C14_Witness ==
    \E u \in UserIds : \E i \in DOMAIN view[u] :
        /\ messages[view[u][i].id].receiverId = u
        /\ messages[view[u][i].id].senderId # u
        /\ SignatureIntact(messages[view[u][i].id])
        /\ CertificateCheck(messages[view[u][i].id])
        /\ ~KeyRevoked(SignerOf(messages[view[u][i].id]))
        /\ view[u][i].signatureValid = "true"
        /\ view[u][i].content = Text("hello bob")

----------------------------------------------------------------------------
(* Claims about signing and verifying (checked under SignSpec)             *)

(* C15: a signature made by signMessage over a message verifies under the  *)
(* signer's public key and under no other key, in the browser and on the   *)
(* server, for messages with and without a timestamp.                      *)
C15_SignatureSoundness ==
    (labVerified.called /\ labVerified.fn = "signed") =>
        labVerified.res = (labVerified.key = labSigned.key)

(* C16: a verification returns a verdict and never throws, and the verdict *)
(* is false when the content, the signature or the key is not the one of   *)
(* the signing, or is malformed or missing.                                *)
ValidOf(verdict) ==
    IF "boolean" \in DOMAIN verdict THEN verdict.boolean ELSE verdict.valid

SigningArguments(args) ==
    /\ args.a1 = labSigned.m
    /\ args.a2 = (IF labSigned.side = "client" THEN labSigned.res.val
                  ELSE labSigned.res.val.signature)
    /\ IF args.fn = "verifySignature" THEN args.a3 = PublicKeyToPem(labSigned.key)
       ELSE IF labSigned.side = "client" THEN TRUE
       ELSE args.a3 = labSigned.res.val.messageHash /\ args.a4 = PublicKeyToPem(labSigned.key)

C16_VerifyNeverThrows ==
    (labVerified.called /\ labVerified.fn # "signed") =>
        /\ labVerified.out.ok
        /\ labVerified.out.ok =>
               (~SigningArguments(labVerified.args) => ~ValidOf(labVerified.out.val))

C16_Witness ==
    /\ labVerified.called /\ labVerified.fn = "verifySignature"
    /\ labVerified.args.side = "client"
    /\ labVerified.args.a1 = labSigned.m
    /\ labVerified.args.a3 = NotAKey
    /\ labVerified.out = Ok(JsBoolean(FALSE))

(* The session key a ciphertext was made under, the key a wrap holds, and  *)
(* the fields an envelope has on the wire and in the table (read by the    *)
(* claims).                                                                *)
SessionKeyOf(ciphertext) == Decode64(ciphertext).val.kdf
WrappedKey(wrap) == Decode64(wrap).val.data
WrapsSessionKey(ciphertext, encryptedKey, senderEncryptedKey) ==
    /\ WrappedKey(encryptedKey) = SessionKeyOf(ciphertext)
    /\ WrappedKey(senderEncryptedKey) = SessionKeyOf(ciphertext)
EnvelopeFields ==
    {"content", "encryptedMessage", "encryptedKey", "senderEncryptedKey", "iv",
     "contentHash", "messageHash", "signature"}
KeyInClear(record, key) ==
    \E f \in DOMAIN record \cap EnvelopeFields : record[f] = key

(* C18: every stored message, every request of POST /api/messages and      *)
(* every WebSocket push has its two key wraps around the one session key   *)
(* its ciphertext was made under, and carries that key in no field.        *)
C18_OneSessionKeyNeverInClear ==
    /\ \A i \in DOMAIN messages :
          /\ WrapsSessionKey(messages[i].content, messages[i].encryptedKey,
                             messages[i].senderEncryptedKey)
          /\ ~KeyInClear(messages[i], SessionKeyOf(messages[i].content))
    /\ resp.route = "POST /messages" =>
          /\ WrapsSessionKey(resp.request.encryptedMessage, resp.request.encryptedKey,
                             resp.request.senderEncryptedKey)
          /\ ~KeyInClear(resp.request, SessionKeyOf(resp.request.encryptedMessage))
          /\ ("push" \in DOMAIN resp /\ resp.push # Undefined) =>
                 /\ WrapsSessionKey(resp.push.content, resp.push.encryptedKey,
                                    resp.push.senderEncryptedKey)
                 /\ ~KeyInClear(resp.push, SessionKeyOf(resp.push.content))

C18_Witness ==
    /\ resp.route = "POST /messages" /\ resp.status = 201
    /\ resp.push # Undefined
    /\ Len(messages) = 1
    /\ SignatureIntact(messages[1])
    /\ SessionKeyOf(messages[1].content) = generateSymmetricKey(RandomFor(1))

----------------------------------------------------------------------------
(* CertSpec: CertificateManager's two validators applied to certificates   *)
(* of every shape, at every time of the clock.                             *)

CertKeys == {KeyPair(u, RsaBits) : u \in UserIds}
Names == {Attrs([username |-> u, email |-> e]) : u, e \in UserIds}

(* What a caller can pass as certificatePem: certificates with any         *)
(* subject, issuer, validity, embedded key and signing key, a PEM block    *)
(* that is not a certificate, and text that is not PEM.                    *)
CertificatePems ==
    {CertificateToPem(1, subject, issuer, notBefore, notAfter, publicKey, signer) :
        subject \in {Attrs(UserInfo(1))}, issuer \in Names,
        notBefore \in 0..MaxTime, notAfter \in 0..MaxTime,
        publicKey \in CertKeys, signer \in CertKeys}
    \cup {PublicKeyToPem(k) : k \in CertKeys}
    \cup {Text("not a certificate")}

LabValidateSelfSigned ==
    /\ \E pem \in CertificatePems :
           labVerified' = [called |-> TRUE, fn |-> "validateSelfSignedCertificate",
                           pem |-> pem, t |-> now,
                           res |-> validateSelfSignedCertificate(pem, now)]
    /\ UNCHANGED <<labEnv, labOpen, labBlob, labUnprot, labSigned, labCall>>
    /\ UNCHANGED <<sysVars, otherVars>>

LabVerifyCertificate ==
    /\ \E pem \in CertificatePems :
           labVerified' = [called |-> TRUE, fn |-> "verifyCertificate",
                           pem |-> pem, t |-> now,
                           res |-> verifyCertificate(pem, now)]
    /\ UNCHANGED <<labEnv, labOpen, labBlob, labUnprot, labSigned, labCall>>
    /\ UNCHANGED <<sysVars, otherVars>>

CertNext ==
    \/ Tick
    \/ LabValidateSelfSigned
    \/ LabVerifyCertificate

CertSpec == CryptoInit /\ [][CertNext]_vars

----------------------------------------------------------------------------
(* Claims about certificate validation                                     *)

Unexpired == \A c \in DOMAIN certs : now <= certs[c].validTo

(* C19: while no certificate has expired, registration accepts the         *)
(* certificate the browser has just made, and GET                          *)
(* /certificates/:certificateId and GET /users/:userId/certificate/verify  *)
(* report an unrevoked certificate as valid.                               *)
C19_FreshCertificateValid ==
    Unexpired =>
        /\ resp.route = "POST /auth/register" => resp.status \in {200, 409}
        /\ (/\ resp.route \in {"GET /certificates/:certificateId",
                               "GET /users/:userId/certificate/verify"}
            /\ resp.status = 200
            /\ ~resp.revoked)
              => resp.body.verification.valid

(* The four checks in the order (a), (b), (c), (d): the first that fails,  *)
(* or "valid" when none does.                                              *)
FirstFailingCheck(pem, t) ==
    IF PemType(pem) # "CERTIFICATE" THEN "format"
    ELSE IF pem.subject # pem.issuer THEN "not self-signed"
    ELSE IF t < pem.notBefore \/ t > pem.notAfter THEN "expired"
    ELSE IF pem.signedBy # pem.publicKey.id THEN "signature"
    ELSE "valid"

(* The check a verdict names.                                              *)
CheckNamed(res) ==
    IF res.valid THEN "valid"
    ELSE IF res.reason = "Formato de certificado invalido" THEN "format"
    ELSE IF res.reason = "Certificado nao e autoassinado" THEN "not self-signed"
    ELSE IF res.reason \in {"Certificado expirado",
                            "Certificado expirado ou ainda nao valido"} THEN "expired"
    ELSE IF res.reason \in {"Assinatura invalida", "Assinatura do certificado invalida",
                            "Erro na verificacao da assinatura"} THEN "signature"
    ELSE "other"

(* C20: validateSelfSignedCertificate and verifyCertificate name the first *)
(* failing check of decodable, subject = issuer, now within the validity   *)
(* period, self-signature, and answer valid only when all four pass.       *)
C20_FirstFailingCheckReported ==
    (labVerified.called
     /\ labVerified.fn \in {"validateSelfSignedCertificate", "verifyCertificate"})
        => CheckNamed(labVerified.res) = FirstFailingCheck(labVerified.pem, labVerified.t)

----------------------------------------------------------------------------
(* Claims about issued certificates                                        *)

(* C21: every row of the certificate table names the same issuer and       *)
(* subject, in its columns and in the certificate it stores.               *)
C21_StoredSelfSigned ==
    \A c \in DOMAIN certs :
        /\ certs[c].issuer = certs[c].subject
        /\ certs[c].certificatePem.issuer = certs[c].certificatePem.subject

----------------------------------------------------------------------------
(* ValiditySpec: certificates issued by the browser and by the server      *)
(* under every setting of CERT_VALIDITY_DAYS.                              *)

MaxValidityDays == 730
ValidityConfigs == {Undefined} \cup {[days |-> d] : d \in 1..MaxValidityDays}

(* The variables of the other function calls.                              *)
labOthers == <<labEnv, labOpen, labBlob, labUnprot, labSigned, labVerified>>

LabIssueClient ==
    /\ labCall' = [called |-> TRUE, fn |-> "issue", side |-> "client",
                   env |-> Undefined, t |-> now,
                   res |-> generateKeyPairWithCertificate(UserInfo(1), 1, now)]
    /\ UNCHANGED labOthers
    /\ UNCHANGED <<sysVars, otherVars>>

LabIssueServer ==
    /\ \E env \in ValidityConfigs :
           labCall' = [called |-> TRUE, fn |-> "issue", side |-> "server",
                       env |-> env, t |-> now,
                       res |-> createSelfSignedCertificateWith(
                                   env, generateKeyPair(1), UserInfo(1), 1, now)]
    /\ UNCHANGED labOthers
    /\ UNCHANGED <<sysVars, otherVars>>

ValidityNext ==
    \/ Tick
    \/ LabIssueClient
    \/ LabIssueServer

ValiditySpec == CryptoInit /\ [][ValidityNext]_vars

(* C22: an issued certificate is valid from the time of issue, for the     *)
(* configured number of days (365 when none is configured), in its record  *)
(* and in the certificate itself: validTo is later than validFrom by that  *)
(* duration.  Times are in ticks of OneYear / 365 days.                    *)
C22_ValidityWindow ==
    (labCall.called /\ labCall.fn = "issue") =>
        LET cert == CertificateFromPem(labCall.res.certificate).val IN
        /\ labCall.res.validFrom = labCall.t
        /\ (labCall.res.validTo - labCall.res.validFrom) * DaysPerYear
               = CertValidityDays(labCall.env) * OneYear
        /\ labCall.res.validTo > labCall.res.validFrom
        /\ cert.notBefore = labCall.res.validFrom
        /\ cert.notAfter = labCall.res.validTo

----------------------------------------------------------------------------
(* UnwrapSpec: decryptSymmetricKey applied to the wrapped keys of a sealed *)
(* envelope, whole or cut short, with every private key.                   *)

(* The base64 of the same bytes without the last one.                      *)
DropByte(b64) == Encode64([Decode64(b64).val EXCEPT !.length = @ - 1])

WrappedKeys(envelope) ==
    {envelope.encryptedKey, envelope.senderEncryptedKey,
     DropByte(envelope.encryptedKey)}

LabUnwrap ==
    /\ labEnv.called /\ labEnv.res.ok
    /\ \E wrapped \in WrappedKeys(labEnv.res.val), k \in LabKeys :
           labCall' = [called |-> TRUE, fn |-> "decryptSymmetricKey",
                       wrapped |-> wrapped, key |-> k,
                       res |-> decryptSymmetricKey(wrapped, PrivateKeyToPem(k))]
    /\ UNCHANGED labOthers
    /\ UNCHANGED <<sysVars, otherVars>>

UnwrapNext ==
    \/ LabSeal
    \/ LabUnwrap

UnwrapSpec == CryptoInit /\ [][UnwrapNext]_vars

KeyMismatch == Err("Tamanho da chave criptografada incompativel")
WrongSize(call) == Decode64(call.wrapped).val.length # ModulusBytes(call.key)

(* C23: decryptSymmetricKey given a wrapped key whose number of bytes is   *)
(* not the modulus size of the private key fails with the size error: the  *)
(* outcome is neither a key nor an error of the RSA decryption.            *)
C23_MismatchBeforeDecryption ==
    (labCall.called /\ labCall.fn = "decryptSymmetricKey" /\ WrongSize(labCall))
        => labCall.res = KeyMismatch

(* A key wrapped for a 2048-bit key pair, complete, handed over with a     *)
(* private key of another size.                                            *)
C23_Witness ==
    /\ labCall.called /\ labCall.fn = "decryptSymmetricKey"
    /\ labCall.wrapped = labEnv.res.val.encryptedKey
    /\ WrongSize(labCall)
    /\ labCall.res = KeyMismatch

----------------------------------------------------------------------------
(* HashSpec: the two digest functions called again and again while the     *)
(* clock moves.                                                            *)

HashContents == Plaintexts \cup {Text("hello alice")}

(* What MessageSignature.createMessageHash is given: the content, the two  *)
(* parties and a timestamp, or no timestamp.                               *)
HashMessages ==
    [content : HashContents, sender : {Text("alice"), Text("bob")},
     recipient : {Text("alice"), Text("bob")},
     timestamp : {Undefined} \cup {ToISOString(t) : t \in 0..MaxTime}]

LabHashClient ==
    /\ \E message \in HashContents :
           labCall' = [called |-> TRUE, fn |-> "hashMessage", message |-> message,
                       t |-> now, res |-> hashMessage(message)]
    /\ UNCHANGED labOthers
    /\ UNCHANGED <<sysVars, otherVars>>

LabHashServer ==
    /\ \E message \in HashMessages :
           labCall' = [called |-> TRUE, fn |-> "createMessageHash", message |-> message,
                       t |-> now, res |-> createMessageHash(message, now)]
    /\ UNCHANGED labOthers
    /\ UNCHANGED <<sysVars, otherVars>>

HashNext ==
    \/ Tick
    \/ LabHashClient
    \/ LabHashServer

HashSpec == CryptoInit /\ [][HashNext]_vars

HashCall(call) == call.called /\ call.fn \in {"hashMessage", "createMessageHash"}

ContentOf(call) ==
    IF call.fn = "hashMessage" THEN call.message ELSE call.message.content

(* C24: of two calls of the same digest function, the later returns the    *)
(* digest of the earlier when it is given the same message, whatever the   *)
(* time of either call, and another digest when the content differs.       *)
C24_HashDeterministic ==
    [][(HashCall(labCall) /\ HashCall(labCall') /\ labCall.fn = labCall'.fn)
           => /\ labCall.message = labCall'.message => labCall.res = labCall'.res
              /\ ContentOf(labCall) # ContentOf(labCall') => labCall.res # labCall'.res]_vars

----------------------------------------------------------------------------
(* AuthSpec: one browser per user; registration, then logins and logouts.  *)
(* AuthContext.jsx holds two definitions of AuthProvider: the frontend     *)
(* runs one of them, fixed from the start.                                 *)

AuthInit == SysInit /\ LabInit /\ build \in Builds

LoginPasswords(u) == {PasswordOf(u), WrongPassword}

(* { ...stored, ...fromServer }: a field of the server's certificate when  *)
(* the server sent one, the stored field otherwise.                        *)
Spread(stored, fromServer, field) ==
    IF fromServer # Undefined THEN fromServer[field]
    ELSE IF stored # Undefined THEN stored[field]
    ELSE Undefined

(* apiService.logout removing the stored certificate with the token.       *)
ApiLogout_RemovesCertificate(store) ==
    [store EXCEPT !.authToken = Undefined, !.userData = Undefined,
                  !.userCertificate = Undefined]

(* apiService.logout: the token and the user data go, the stored           *)
(* certificate stays.                                                      *)
ApiLogout(store) == [store EXCEPT !.authToken = Undefined, !.userData = Undefined]

(* AuthContext.login with POST /api/auth/login.  A 401 answer runs the     *)
(* response interceptor: apiService.logout and a reload of the page.       *)
Login(u, password, g) ==
    LET request == [username |-> u, password |-> password]
        active == ActiveCertIds(u)
        fromServer == IF active = {} THEN Undefined
                      ELSE LET c == certs[Latest(active)] IN
                           [id |-> c.id, serialNumber |-> c.serialNumber,
                            publicKeyPem |-> c.publicKeyPem,
                            certificatePem |-> c.certificatePem]
        stored == storage[u].userCertificate
        decrypted == IF stored = Undefined THEN Err("no stored certificate")
                     ELSE decryptPrivateKeyWithPassword(stored.encryptedPrivateKey,
                                                        password, g)
        base == IF decrypted.ok THEN stored ELSE Undefined IN
    /\ Serve
    /\ IF ~Registered(u) \/ ~BcryptCompare(password, users[u].password)
       THEN /\ resp' = [route |-> "POST /auth/login", status |-> 401, request |-> request,
                        body |-> [error |-> "Credenciais invalidas"]]
            /\ storage' = [storage EXCEPT ![u] = ApiLogout(@)]
            /\ clientCert' = [clientCert EXCEPT ![u] = Undefined]
       ELSE /\ resp' = [route |-> "POST /auth/login", status |-> 200, request |-> request,
                        body |-> [certificate |-> fromServer]]
            /\ storage' = [storage EXCEPT ![u] =
                              [@ EXCEPT !.authToken = Token(u),
                                        !.userData = UserInfo(u),
                                        !.tempPassword = IF build = "first" THEN password
                                                         ELSE @]]
            /\ clientCert' = [clientCert EXCEPT ![u] =
                                 [id |-> Spread(base, fromServer, "id"),
                                  serialNumber |-> Spread(base, fromServer, "serialNumber"),
                                  publicKeyPem |-> Spread(base, fromServer, "publicKeyPem"),
                                  certificatePem |->
                                      Spread(base, fromServer, "certificatePem"),
                                  encryptedPrivateKey |->
                                      IF decrypted.ok THEN stored.encryptedPrivateKey
                                      ELSE Undefined,
                                  privateKey |->
                                      IF decrypted.ok THEN decrypted.val ELSE Undefined]]
    /\ UNCHANGED <<now, users, certs, messages, pending, serverKeys, revokeOk, view>>
    /\ UNCHANGED <<labVars, build, websocketService, wsVars>>

(* AuthContext.logout                                                      *)
Logout(u) ==
    /\ storage[u].authToken # Undefined
    /\ storage' = [storage EXCEPT ![u] = ApiLogout(@)]
    /\ clientCert' = [clientCert EXCEPT ![u] = Undefined]
    /\ UNCHANGED <<now, users, certs, messages, pending, resp, serverKeys, revokeOk,
                   view, served>>
    /\ UNCHANGED <<labVars, build, websocketService, wsVars>>

(* A request of a logged-in browser is answered 401 (the token has         *)
(* expired): the response interceptor logs out and reloads the page.       *)
Unauthorized(u) ==
    /\ storage[u].authToken # Undefined
    /\ storage' = [storage EXCEPT ![u] = ApiLogout(@)]
    /\ clientCert' = [clientCert EXCEPT ![u] = Undefined]
    /\ resp' = [route |-> "any", status |-> 401, request |-> [username |-> u],
                body |-> [error |-> "Token invalido ou expirado"]]
    /\ UNCHANGED <<now, users, certs, messages, pending, serverKeys, revokeOk,
                   view, served>>
    /\ UNCHANGED <<labVars, build, websocketService, wsVars>>

AuthNext ==
    \/ \E u \in UserIds : Register(u)
    \/ \E u \in UserIds, g \in GarbageOutcomes : \E password \in LoginPasswords(u) :
           Login(u, password, g)
    \/ \E u \in UserIds : Logout(u)
    \/ \E u \in UserIds : Unauthorized(u)

AuthSpec == AuthInit /\ [][AuthNext]_vars

(* The private key the browser of u made at registration.                  *)
RegistrationKey(u) ==
    LET first == CHOOSE c \in DOMAIN certs :
                     certs[c].userId = u
                     /\ \A d \in DOMAIN certs : certs[d].userId = u => c <= d IN
    PrivateKeyToPem(KeyPair(certs[first].serialNumber, RsaBits))

(* C25: once registration has stored the encrypted private key, no login,  *)
(* logout or 401 answer changes or removes it, and every login with the    *)
(* registration password leaves in the browser's state the private key     *)
(* made at registration.                                                   *)
C25_BlobLifecycle ==
    [][\A u \in UserIds :
           /\ storage[u].userCertificate # Undefined
                  => storage'[u].userCertificate = storage[u].userCertificate
           /\ (/\ served' # served
               /\ resp'.route = "POST /auth/login" /\ resp'.status = 200
               /\ resp'.request.username = u)
                  => clientCert'[u].privateKey = RegistrationKey(u)]_vars

(* A second login after a logout, with the key recovered.                  *)
C25_Witness ==
    /\ resp.route = "POST /auth/login" /\ resp.status = 200
    /\ served >= 4
    /\ clientCert[1] # Undefined
    /\ clientCert[1].privateKey = RegistrationKey(1)
    /\ storage[1].userCertificate # Undefined

----------------------------------------------------------------------------
(* Claims about what the server accepts                                    *)

(* The signature field decodes to a signature made with the key the server *)
(* holds for the sender (over whatever text).                              *)
SignedBySender(msg) ==
    Registered(msg.senderId) /\ SignerOf(msg) = users[msg.senderId].publicKey.n

(* C26: every message the server has stored, and every message it has      *)
(* pushed to the recipient, carries a signature made with its sender's     *)
(* key.                                                                    *)
C26_OnlyVerifiedStored ==
    /\ \A i \in DOMAIN messages : SignedBySender(messages[i])
    /\ (resp.route = "POST /messages" /\ resp.status = 201 /\ resp.push # Undefined)
           => SignedBySender(messages[resp.push.id])

----------------------------------------------------------------------------
(* StorageSpec: AuthSpec with the two operations that replace the stored   *)
(* certificate.                                                            *)

(* The argument a caller hands to updateCertificate: the certificate of    *)
(* the context's state.                                                    *)
CertificateArgs(u) == IF clientCert[u] = Undefined THEN {} ELSE {clientCert[u]}

(* toPersist = { ...certificateData }; delete toPersist.privateKey         *)
WithoutPrivateKey(certificateData) ==
    [f \in DOMAIN certificateData \ {"privateKey"} |-> certificateData[f]]

(* AuthContext.updateCertificate                                           *)
UpdateCertificate(u, certificateData) ==
    /\ clientCert' = [clientCert EXCEPT ![u] = certificateData]
    /\ storage' = [storage EXCEPT ![u].userCertificate =
                      IF build = "first" THEN certificateData
                      ELSE WithoutPrivateKey(certificateData)]
    /\ UNCHANGED <<now, users, certs, messages, pending, resp, serverKeys, revokeOk,
                   view, served>>
    /\ UNCHANGED <<labVars, build, websocketService, wsVars>>

StorageNext ==
    \/ \E u \in UserIds : Register(u)
    \/ \E u \in UserIds, g \in GarbageOutcomes : \E password \in LoginPasswords(u) :
           Login(u, password, g)
    \/ \E u \in UserIds : Logout(u)
    \/ \E u \in UserIds : \E certificateData \in CertificateArgs(u) :
           UpdateCertificate(u, certificateData)
    \/ \E r \in ReqIds, u \in UserIds : \E password \in RegenPasswords(u) :
           RegenBegin(r, u, password)
    \/ \E r \in ReqIds : RegenCommit(r)

StorageSpec == AuthInit /\ [][StorageNext]_vars

(* The stored certificate carries a private key in the clear.              *)
HoldsPlainKey(store) ==
    /\ store.userCertificate # Undefined
    /\ "privateKey" \in DOMAIN store.userCertificate
    /\ store.userCertificate.privateKey # Undefined

(* The storage holds a password that decrypts the stored key blob.         *)
HoldsUnwrapPassword(store) ==
    /\ store.tempPassword # Undefined
    /\ store.userCertificate # Undefined
    /\ "encryptedPrivateKey" \in DOMAIN store.userCertificate
    /\ decryptPrivateKeyWithPassword(store.userCertificate.encryptedPrivateKey,
                                     store.tempPassword, "malformed").ok

(* C27: whatever the browser has done, its storage holds neither a private *)
(* key in the clear nor the password that decrypts the stored key blob.    *)
C27_NoSecretInStorage ==
    \A u \in UserIds : ~HoldsPlainKey(storage[u]) /\ ~HoldsUnwrapPassword(storage[u])

----------------------------------------------------------------------------
(* WsSpec: the WebSocket server's registry of connections.                 *)

MaxSockets == 4

(* The token of the connection's URL: a user's JWT, or none.               *)
WsTokens == {Token(u) : u \in UserIds} \cup {Undefined}

(* WebSocketServer.isUserOnline                                            *)
isUserOnline(userId) ==
    clients[userId] # NoSocket /\ sockets[clients[userId]].readyState = "OPEN"

(* WebSocketServer.sendToUser: whether the push was handed to a socket.    *)
sendToUser(userId) ==
    clients[userId] # NoSocket /\ sockets[clients[userId]].readyState = "OPEN"

(* clients.delete(ws.userId)                                               *)
ClientsDelete(map, userId) == [map EXCEPT ![userId] = NoSocket]

(* WebSocketServer.handleDisconnection of connection id                    *)
handleDisconnection(map, ws, id) ==
    IF ws.userId # NoUserId THEN ClientsDelete(map, ws.userId) ELSE map

(* WebSocketServer.handleConnection on the upgrade request of a new        *)
(* connection: a connection without a token is                             *)
(* closed and gets no handlers; otherwise the user's open connection, if   *)
(* any, is told to close (it stays in the closing handshake until its      *)
(* close event), and the new one is registered.                            *)
WsConnect(token) ==
    LET id == Len(sockets) + 1 IN
    /\ Serve
    /\ Len(sockets) < MaxSockets
    /\ IF token = Undefined
       THEN /\ sockets' = Append(sockets, [userId |-> NoUserId, readyState |-> "CLOSING"])
            /\ UNCHANGED clients
       ELSE LET userId == token.jwt
                existingWs == clients[userId]
                closing == IF existingWs # NoSocket
                              /\ sockets[existingWs].readyState = "OPEN"
                           THEN [sockets EXCEPT ![existingWs].readyState = "CLOSING"]
                           ELSE sockets IN
            /\ sockets' = Append(closing, [userId |-> userId, readyState |-> "OPEN"])
            /\ clients' = [clients EXCEPT ![userId] = id]
    /\ UNCHANGED <<now, users, certs, messages, pending, resp, serverKeys, revokeOk,
                   clientCert, view>>
    /\ UNCHANGED <<labVars, browserVars>>

(* The close event of a connection: the peer went away, or the closing     *)
(* handshake the server started has ended.  The socket is closed, then the *)
(* 'close' handler runs.                                                   *)
WsClose(id) ==
    /\ id \in DOMAIN sockets
    /\ sockets[id].readyState \in {"OPEN", "CLOSING"}
    /\ sockets' = [sockets EXCEPT ![id].readyState = "CLOSED"]
    /\ clients' = handleDisconnection(clients, sockets[id], id)
    /\ UNCHANGED <<labVars, sysVars, browserVars>>

WsNext ==
    \/ \E token \in WsTokens : WsConnect(token)
    \/ \E id \in 1..MaxSockets : WsClose(id)

WsSpec == Init /\ [][WsNext]_vars

(* The user has an authenticated connection that is open.                  *)
HasOpenConnection(u) ==
    \E id \in DOMAIN sockets : sockets[id].userId = u /\ sockets[id].readyState = "OPEN"

(* C28: a user with an open authenticated connection is registered with an *)
(* open connection of theirs: the user is online and pushes are sent.      *)
C28_RegistrySurvivesReconnect ==
    \A u \in UserIds :
        HasOpenConnection(u)
            => /\ isUserOnline(u)
               /\ sendToUser(u)
               /\ sockets[clients[u]].userId = u

----------------------------------------------------------------------------
(* KeySpec: revocation and regeneration, then the two places where the     *)
(* server uses a user's public key.                                        *)

(* GET /api/users/:userId/public-key, asked by user me                     *)
GetPublicKey(me, userId) ==
    /\ Serve
    /\ Registered(me)
    /\ IF ~(Registered(userId) /\ users[userId].isActive)
       THEN resp' = [route |-> "GET /users/:userId/public-key", status |-> 404,
                     body |-> [message |-> "Usuario nao encontrado"]]
       ELSE resp' = [route |-> "GET /users/:userId/public-key", status |-> 200,
                     body |-> [publicKey |-> users[userId].publicKey,
                               user |-> [id |-> userId,
                                         username |-> users[userId].username]]]
    /\ UNCHANGED <<now, users, certs, messages, pending, serverKeys, revokeOk,
                   clientCert, view>>
    /\ UNCHANGED <<labVars, otherVars>>

(* The signature field of a send_message frame: the content signed with    *)
(* the private key the sender's browser holds, or text that is no          *)
(* signature.                                                              *)
WsSignatures(u, content) ==
    LET privateKey == getPrivateKey(IF u = NoUserId THEN Undefined ELSE clientCert[u]) IN
    {Text("forged")}
        \cup (IF privateKey.ok THEN {signMessage(content, privateKey.val).val} ELSE {})

(* WebSocketServer.handleSendMessage on connection id.  The row is written *)
(* by prisma.message.create with the fields recipientId and messageHash;   *)
(* the create succeeds or throws (stored).                                 *)
WsSendMessage(id, recipientId, content, signature, stored) ==
    LET ws == sockets[id]
        message == [type |-> "send_message", recipientId |-> recipientId,
                    content |-> content, signature |-> signature,
                    messageHash |-> hashMessage(content)]
        isValidSignature == verifyMessage(message.content, message.signature,
                                          Text(ws.userId), Undefined, now)
        row == [id |-> Len(messages) + 1,
                content |-> message.content,
                encryptedKey |-> Undefined, senderEncryptedKey |-> Undefined,
                iv |-> Undefined,
                contentHash |-> message.messageHash,
                signature |-> message.signature,
                senderId |-> ws.userId, receiverId |-> message.recipientId,
                isEncrypted |-> TRUE, isRead |-> FALSE, readAt |-> NoTime,
                createdAt |-> now] IN
    /\ id \in DOMAIN sockets
    /\ ws.readyState = "OPEN" /\ ws.userId # NoUserId
    /\ Len(messages) < MaxMessages
    /\ IF ~Registered(recipientId)
       THEN /\ resp' = [route |-> "WS send_message", status |-> 0, request |-> message,
                        user |-> ws.userId, verified |-> FALSE,
                        body |-> [type |-> "error",
                                  message |-> "Destinatario nao encontrado"]]
            /\ UNCHANGED messages
       ELSE IF isValidSignature # JsBoolean(TRUE)
       THEN /\ resp' = [route |-> "WS send_message", status |-> 0, request |-> message,
                        user |-> ws.userId, verified |-> FALSE,
                        body |-> [type |-> "error",
                                  message |-> "Assinatura da mensagem invalida"]]
            /\ UNCHANGED messages
       ELSE IF ~stored
       THEN /\ resp' = [route |-> "WS send_message", status |-> 0, request |-> message,
                        user |-> ws.userId, verified |-> TRUE,
                        body |-> [type |-> "error", message |-> "Erro ao enviar mensagem"]]
            /\ UNCHANGED messages
       ELSE /\ messages' = Append(messages, row)
            /\ resp' = [route |-> "WS send_message", status |-> 0, request |-> message,
                        user |-> ws.userId, verified |-> TRUE,
                        body |-> [type |-> "message_sent", messageId |-> row.id,
                                  status |-> "sent"],
                        push |-> IF sendToUser(recipientId) THEN NewMessagePush(row)
                                 ELSE Undefined]
    /\ UNCHANGED <<now, users, certs, pending, serverKeys, revokeOk, clientCert, view,
                   served>>
    /\ UNCHANGED <<labVars, otherVars>>

KeyNext ==
    \/ \E u \in UserIds : Register(u)
    \/ \E r \in ReqIds, u \in UserIds, c \in CertIds, reason \in Reasons :
           RevokeBegin(r, u, c, reason)
    \/ \E r \in ReqIds : RevokeCommit(r)
    \/ \E r \in ReqIds, u \in UserIds : \E password \in RegenPasswords(u) :
           RegenBegin(r, u, password)
    \/ \E r \in ReqIds : RegenCommit(r)
    \/ \E me \in UserIds, userId \in UserIds : GetPublicKey(me, userId)
    \/ \E token \in WsTokens : WsConnect(token)
    \/ \E id \in DOMAIN sockets, recipientId \in UserIds, content \in SendTexts,
          stored \in BOOLEAN :
           \E signature \in WsSignatures(sockets[id].userId, content) :
               WsSendMessage(id, recipientId, content, signature, stored)

KeySpec == Init /\ [][KeyNext]_vars

(* C29: the key the public-key route returns for a user, and the key of a  *)
(* signature the WebSocket verification accepts, is not the key of a       *)
(* revoked certificate.                                                    *)
C29_RevokedKeyNotCurrent ==
    /\ (resp.route = "GET /users/:userId/public-key" /\ resp.status = 200)
           => ~KeyRevoked(resp.body.publicKey.n)
    /\ (resp.route = "WS send_message" /\ resp.verified)
           => ~KeyRevoked(SignerOf(resp.request))

----------------------------------------------------------------------------
(* ReadSpec: a message is sent, then marked read on the three paths.       *)

MessageIds == 1..(MaxMessages + 1)

(* PATCH /api/messages/:messageId/read, asked by user me                   *)
MarkRead(me, messageId) ==
    LET found == messageId \in DOMAIN messages /\ messages[messageId].receiverId = me
        message == messages[messageId]
        updatedMessage == [message EXCEPT !.isRead = TRUE, !.readAt = now] IN
    /\ Serve
    /\ Registered(me)
    /\ IF ~found
       THEN /\ resp' = [route |-> "PATCH /messages/:messageId/read", status |-> 404,
                        user |-> me,
                        body |-> [message |-> "Mensagem nao encontrada"]]
            /\ UNCHANGED messages
       ELSE IF message.isRead
       THEN /\ resp' = [route |-> "PATCH /messages/:messageId/read", status |-> 200,
                        user |-> me,
                        body |-> [message |-> "Mensagem ja foi lida",
                                  messageId |-> message.id, readAt |-> message.readAt]]
            /\ UNCHANGED messages
       ELSE /\ messages' = [messages EXCEPT ![messageId] = updatedMessage]
            /\ resp' = [route |-> "PATCH /messages/:messageId/read", status |-> 200,
                        user |-> me,
                        body |-> [message |-> "Mensagem marcada como lida",
                                  messageId |-> updatedMessage.id,
                                  readAt |-> updatedMessage.readAt],
                        push |-> IF isUserOnline(message.senderId)
                                 THEN [type |-> "message_read", messageId |-> message.id,
                                       readAt |-> updatedMessage.readAt]
                                 ELSE Undefined]
    /\ UNCHANGED <<now, users, certs, pending, serverKeys, revokeOk, clientCert, view>>
    /\ UNCHANGED <<labVars, otherVars>>

(* WebSocketServer.markMessageRead: update where id, data readAt.          *)
markMessageRead(table, messageId, t) == [table EXCEPT ![messageId].readAt = t]

(* WebSocketServer.handleMessageRead on connection id.  An update of a row *)
(* that does not exist throws and the handler logs it; getMessageById      *)
(* returns the row or throws (fetched).                                    *)
WsMessageRead(id, messageId, fetched) ==
    LET ws == sockets[id]
        request == [type |-> "message_read", messageId |-> messageId] IN
    /\ id \in DOMAIN sockets
    /\ ws.readyState = "OPEN" /\ ws.userId # NoUserId
    /\ IF messageId \notin DOMAIN messages
       THEN /\ resp' = [route |-> "WS message_read", status |-> 0, request |-> request,
                        user |-> ws.userId, push |-> Undefined]
            /\ UNCHANGED messages
       ELSE /\ messages' = markMessageRead(messages, messageId, now)
            /\ resp' = [route |-> "WS message_read", status |-> 0, request |-> request,
                        user |-> ws.userId,
                        push |-> IF fetched /\ sendToUser(messages[messageId].senderId)
                                 THEN [type |-> "message_read", messageId |-> messageId,
                                       readBy |-> ws.userId]
                                 ELSE Undefined]
    /\ UNCHANGED <<now, users, certs, pending, serverKeys, revokeOk, clientCert, view,
                   served>>
    /\ UNCHANGED <<labVars, otherVars>>

ReadNext ==
    \/ Tick
    \/ \E u \in UserIds : Register(u)
    \/ \E s \in UserIds, r \in UserIds, m \in SendTexts : SendMessage(s, r, m)
    \/ \E me \in UserIds, other \in UserIds : LoadMessages(me, other)
    \/ \E me \in UserIds, messageId \in MessageIds : MarkRead(me, messageId)
    \/ \E token \in WsTokens : WsConnect(token)
    \/ \E id \in DOMAIN sockets, messageId \in MessageIds, fetched \in BOOLEAN :
           WsMessageRead(id, messageId, fetched)

ReadSpec == Init /\ [][ReadNext]_vars

ReadFields(msg) == <<msg.isRead, msg.readAt>>

(* C30: in every step, a message that is read stays read, a readAt that is *)
(* set keeps its value, and the read flag or readAt of a message changes   *)
(* only in a request of the message's recipient, which leaves the message  *)
(* read with its readAt set.                                               *)
C30_ReadOnceByRecipient ==
    [][\A i \in DOMAIN messages :
           /\ messages[i].isRead => messages'[i].isRead
           /\ messages[i].readAt # NoTime => messages'[i].readAt = messages[i].readAt
           /\ ReadFields(messages'[i]) # ReadFields(messages[i])
                  => /\ "user" \in DOMAIN resp'
                     /\ resp'.user = messages[i].receiverId
                     /\ messages'[i].isRead
                     /\ messages'[i].readAt # NoTime]_vars

----------------------------------------------------------------------------
(* RegSpec: POST /api/auth/register called with any body, by clients that  *)
(* may send their requests together.                                       *)

MinPasswordLen == 8
ShortPassword == Text("curta")

(* The certificate a browser makes for the name (username, email) with key *)
(* pair and serial number serial.                                          *)
OwnCertificate(username, email, serial) ==
    LET attrs == Attrs([username |-> username, email |-> email])
        keyPair == KeyPair(serial, RsaBits) IN
    CertificateToPem(serial, attrs, attrs, 0, OneYear, keyPair, keyPair)

(* The bodies clients post: any username and email with a certificate made *)
(* for that name or for the name with username and email exchanged, and    *)
(* bodies with one defect: a short or missing password, no certificate,    *)
(* text that is no certificate, a certificate issued under another name,   *)
(* not yet valid, or signed with another key.                              *)
RegisterRequests ==
    LET mine == OwnCertificate(1, 1, 1)
        defects ==
            {[password |-> ShortPassword, certificate |-> mine],
             [password |-> Undefined, certificate |-> mine],
             [password |-> PasswordOf(1), certificate |-> Undefined],
             [password |-> PasswordOf(1), certificate |-> Text("not a certificate")],
             [password |-> PasswordOf(1),
              certificate |-> [mine EXCEPT !.issuer = Attrs([username |-> 1, email |-> 2])]],
             [password |-> PasswordOf(1),
              certificate |-> [mine EXCEPT !.notBefore = MaxTime,
                                           !.notAfter = MaxTime + OneYear]],
             [password |-> PasswordOf(1),
              certificate |-> [mine EXCEPT !.signedBy = 2]]} IN
    UNION {{[username |-> u, email |-> e, password |-> PasswordOf(u), certificate |-> c] :
               c \in {OwnCertificate(n[1], n[2], serial) :
                         n \in {<<u, e>>, <<e, u>>}, serial \in UserIds}} :
           u \in UserIds, e \in UserIds}
    \cup {[username |-> 1, email |-> 1, password |-> d.password,
           certificate |-> d.certificate] : d \in defects}

(* findFirst where: { OR: [{ username }, { email }] }                      *)
ExistingUser(username, email) ==
    \E u \in UserIds :
        users[u] # NoUser /\ (users[u].username = username \/ users[u].email = email)

(* POST /api/auth/register up to its first await: the checks of the body   *)
(* and of the certificate, and the findFirst.                              *)
RegisterBegin(r, request) ==
    LET certValidation == validateSelfSignedCertificate(request.certificate, now)
        certificateData == extractCertificateData(request.certificate)
        Answer(status, error) ==
            /\ resp' = [route |-> "POST /auth/register", status |-> status,
                        request |-> request, body |-> [error |-> error]]
            /\ UNCHANGED pending IN
    /\ Serve
    /\ FreeSlot(r)
    /\ IF Falsy(request.password) \/ Falsy(request.certificate)
       THEN Answer(400, "Username, email, password e certificate sao obrigatorios")
       ELSE IF Len(request.password.txt) < MinPasswordLen
       THEN Answer(400, "Password deve ter pelo menos 8 caracteres")
       ELSE IF PemType(request.certificate) # "CERTIFICATE"
       THEN Answer(400, "Formato de certificado invalido")
       ELSE IF ~certValidation.valid
       THEN Answer(400, certValidation.reason)
       ELSE IF certificateData.commonName # request.username
       THEN Answer(400, "O nome comum do certificado deve corresponder ao username")
       ELSE IF certificateData.email # request.email
       THEN Answer(400, "O email do certificado deve corresponder ao email fornecido")
       ELSE IF ExistingUser(request.username, request.email)
       THEN Answer(409, "Usuario ou email ja existe")
       ELSE /\ pending' = [pending EXCEPT ![r] = [kind |-> "register", request |-> request]]
            /\ UNCHANGED resp
    /\ UNCHANGED <<now, users, certs, messages, serverKeys, revokeOk, clientCert, view>>
    /\ UNCHANGED <<labVars, otherVars>>

(* The transaction of POST /api/auth/register and the answer.  A create    *)
(* that breaks a unique index (users.username, users.email,                *)
(* certificates.serial_number) throws: the transaction is rolled back and  *)
(* the catch answers 500.                                                  *)
RegisterCommit(r) ==
    LET request == pending[r].request
        certificateData == extractCertificateData(request.certificate)
        row == CertificateRow(Len(certs) + 1, request.username, certificateData,
                              certificateData.publicKeyPem, now)
        unique == /\ ~ExistingUser(request.username, request.email)
                  /\ \A c \in DOMAIN certs :
                         certs[c].serialNumber # certificateData.serialNumber IN
    /\ pending[r].kind = "register"
    /\ Len(certs) < MaxCerts
    /\ IF ~unique
       THEN /\ resp' = [route |-> "POST /auth/register", status |-> 500,
                        request |-> request,
                        body |-> [error |-> "Erro interno do servidor"]]
            /\ UNCHANGED <<users, certs>>
       ELSE /\ users' = [users EXCEPT ![request.username] =
                            [username |-> request.username, email |-> request.email,
                             password |-> Bcrypt(request.password),
                             publicKey |-> certificateData.publicKeyPem,
                             isActive |-> TRUE]]
            /\ certs' = Append(certs, row)
            /\ resp' = [route |-> "POST /auth/register", status |-> 200,
                        request |-> request,
                        body |-> [certificate |->
                                     [id |-> row.id, serialNumber |-> row.serialNumber,
                                      publicKeyPem |-> row.publicKeyPem,
                                      certificatePem |-> row.certificatePem]]]
    /\ pending' = [pending EXCEPT ![r] = Idle]
    /\ UNCHANGED <<now, messages, serverKeys, revokeOk, clientCert, view, served>>
    /\ UNCHANGED <<labVars, otherVars>>

RegNext ==
    \/ Tick
    \/ \E r \in ReqIds, request \in RegisterRequests : RegisterBegin(r, request)
    \/ \E r \in ReqIds : RegisterCommit(r)

RegSpec == Init /\ [][RegNext]_vars

(* The step answered a registration.                                       *)
RegistrationAnswered == resp' # resp /\ resp'.route = "POST /auth/register"

C32_DuplicateAnswered409 ==
    [][(RegistrationAnswered
        /\ ExistingUser(resp'.request.username, resp'.request.email))
           => /\ users' = users
              /\ certs' = certs
              /\ resp'.status \in {400, 409}]_vars

----------------------------------------------------------------------------
(* SendSpec: the signing of POST /api/messages/send and the verification   *)
(* of GET /api/messages/:messageId/verify, applied to a certificate row    *)
(* that holds its key pair and a table that takes the row as it is given.  *)

SendContents == {Text("hello bob"), Text("another message"), LoneSurrogate}

(* const { hash, signature } = ...: a property the object does not have is *)
(* undefined.                                                              *)
Property(object, name) == IF name \in DOMAIN object THEN object[name] ELSE Undefined

(* POST /api/messages/send from the signing on: messageData, signMessage    *)
(* and the row given to prisma.message.create.  createdAt is the time of   *)
(* the insert.                                                             *)
LabSendRoute ==
    \E content \in SendContents, senderId \in UserIds, receiverId \in UserIds,
       k \in CertKeys :
        LET messageData == [content |-> content, senderId |-> senderId,
                            receiverId |-> receiverId, timestamp |-> ToISOString(now),
                            sender |-> Undefined, recipient |-> Undefined]
            signed == MessageSignature_signMessage(messageData, PrivateKeyToPem(k), now)
            row == [content |-> content,
                    contentHash |-> Property(signed.val, "hash"),
                    signature |-> Property(signed.val, "signature"),
                    senderId |-> senderId, receiverId |-> receiverId,
                    createdAt |-> now,
                    certificate |-> [publicKeyPem |-> PublicKeyToPem(k)]] IN
        /\ signed.ok
        /\ labCall' = [called |-> TRUE, fn |-> "POST /messages/send",
                       signed |-> signed.val, row |-> row]
        /\ UNCHANGED labOthers
        /\ UNCHANGED <<sysVars, otherVars>>

(* GET /api/messages/:messageId/verify on the row POST /send has stored    *)
LabVerifyRoute ==
    LET message == labCall.row
        messageData == [content |-> message.content, senderId |-> message.senderId,
                        receiverId |-> message.receiverId,
                        timestamp |-> ToISOString(message.createdAt)]
        verification == verifyMessage(messageData, message.signature, message.contentHash,
                                      message.certificate.publicKeyPem, now) IN
    /\ labCall.called
    /\ labCall.fn \in {"POST /messages/send", "GET /messages/:messageId/verify"}
    /\ labCall' = [called |-> TRUE, fn |-> "GET /messages/:messageId/verify",
                   row |-> message, t |-> now, verification |-> verification]
    /\ UNCHANGED labOthers
    /\ UNCHANGED <<sysVars, otherVars>>

SendNext ==
    \/ Tick
    \/ LabSendRoute
    \/ LabVerifyRoute

SendSpec == CryptoInit /\ [][SendNext]_vars

----------------------------------------------------------------------------
(* ClientSpec: the WebSocketService singleton of one browser.  The         *)
(* Dashboard connects when it mounts and disconnects when it unmounts; a   *)
(* WebSocket object opens or closes when the browser says so; a reconnect  *)
(* timer fires some time after it was set.                                 *)

MaxBrowserSockets == 6
NormalClosure == 1000      \* the code of a close that both ends agreed on
AbnormalClosure == 1006    \* the code of a connection that failed or was lost
Browser == CHOOSE u \in UserIds : TRUE

(* sessionStorage.getItem('authToken') || localStorage.getItem('authToken') *)
StoredToken == storage[Browser].authToken

(* A scheduleReconnect that sets the timer without counting the attempt.   *)
scheduleReconnect_NoCount(service) == [service EXCEPT !.timers = @ + 1]

(* WebSocketService.scheduleReconnect                                      *)
scheduleReconnect(service) ==
    [service EXCEPT !.reconnectAttempts = @ + 1, !.timers = @ + 1]

(* WebSocketService.connect: nothing when this.ws is open, otherwise a new *)
(* WebSocket object, connecting, that replaces this.ws.                    *)
connect(service) ==
    IF service.ws # NoSocket /\ service.webSockets[service.ws].readyState = "OPEN"
    THEN service
    ELSE [service EXCEPT
              !.webSockets = Append(@, [readyState |-> "CONNECTING", opened |-> FALSE]),
              !.ws = Len(service.webSockets) + 1]

(* WebSocketService.disconnect: close(1000) on this.ws starts the closing  *)
(* handshake of an open socket and abandons a connecting one; a socket     *)
(* that is closing or closed is left alone.                                *)
disconnect(service) ==
    IF service.ws = NoSocket THEN service
    ELSE [service EXCEPT
              !.webSockets[service.ws].readyState =
                  IF @ \in {"CONNECTING", "OPEN"} THEN "CLOSING" ELSE @,
              !.ws = NoSocket,
              !.isConnected = FALSE]

(* The codes the close event of a socket can carry: a socket that never    *)
(* opened fails with 1006; an open or closing one ends with the code of    *)
(* the peer's close frame or, when the connection is lost, with 1006.      *)
CloseCodes(socket) ==
    IF socket.opened THEN {NormalClosure, AbnormalClosure} ELSE {AbnormalClosure}

(* The Dashboard effect when the component mounts.                         *)
DashboardMount ==
    /\ ~websocketService.mounted
    /\ \/ StoredToken = Undefined
       \/ websocketService.ws # NoSocket
          /\ websocketService.webSockets[websocketService.ws].readyState = "OPEN"
       \/ Len(websocketService.webSockets) < MaxBrowserSockets
    /\ websocketService' =
           LET mounted == [websocketService EXCEPT !.mounted = TRUE] IN
           IF StoredToken = Undefined THEN mounted
           ELSE [connect(mounted) EXCEPT !.disconnected = FALSE]
    /\ UNCHANGED <<labVars, sysVars, storage, build, wsVars>>

(* The cleanup of the Dashboard effect when the component unmounts.        *)
DashboardUnmount ==
    /\ websocketService.mounted
    /\ websocketService' =
           [disconnect(websocketService) EXCEPT !.mounted = FALSE, !.disconnected = TRUE]
    /\ UNCHANGED <<labVars, sysVars, storage, build, wsVars>>

(* ws.onopen                                                               *)
WsOnOpen(i) ==
    /\ i \in DOMAIN websocketService.webSockets
    /\ websocketService.webSockets[i].readyState = "CONNECTING"
    /\ websocketService' =
           [websocketService EXCEPT
                !.webSockets[i] = [readyState |-> "OPEN", opened |-> TRUE],
                !.isConnected = TRUE,
                !.reconnectAttempts = 0]
    /\ UNCHANGED <<labVars, sysVars, storage, build, wsVars>>

(* ws.onclose with event.code = code                                       *)
WsOnClose(i, code) ==
    /\ i \in DOMAIN websocketService.webSockets
    /\ websocketService.webSockets[i].readyState # "CLOSED"
    /\ code \in CloseCodes(websocketService.webSockets[i])
    /\ LET closed == [websocketService EXCEPT
                          !.webSockets[i] = [readyState |-> "CLOSED"],
                          !.closeCode = code,
                          !.isConnected = FALSE] IN
       websocketService' =
           IF code # NormalClosure /\ closed.reconnectAttempts < maxReconnectAttempts
           THEN scheduleReconnect(closed)
           ELSE closed
    /\ UNCHANGED <<labVars, sysVars, storage, build, wsVars>>

(* The callback of the timer scheduleReconnect has set.                    *)
ReconnectTimer ==
    /\ websocketService.timers > 0
    /\ \/ StoredToken = Undefined
       \/ websocketService.ws # NoSocket
          /\ websocketService.webSockets[websocketService.ws].readyState = "OPEN"
       \/ Len(websocketService.webSockets) < MaxBrowserSockets
    /\ websocketService' =
           LET fired == [websocketService EXCEPT !.timers = @ - 1] IN
           IF StoredToken # Undefined THEN connect(fired) ELSE fired
    /\ UNCHANGED <<labVars, sysVars, storage, build, wsVars>>

ClientNext ==
    \/ ~Registered(Browser) /\ Register(Browser)
    \/ Logout(Browser)
    \/ DashboardMount
    \/ DashboardUnmount
    \/ \E i \in 1..MaxBrowserSockets : WsOnOpen(i)
    \/ \E i \in 1..MaxBrowserSockets :
           \E code \in {NormalClosure, AbnormalClosure} : WsOnClose(i, code)
    \/ ReconnectTimer

ClientSpec == Init /\ [][ClientNext]_vars

(* The close event of socket i is delivered in this step.                  *)
ClosedIn(i) ==
    /\ i \in DOMAIN websocketService.webSockets
    /\ websocketService.webSockets[i].readyState # "CLOSED"
    /\ websocketService'.webSockets[i].readyState = "CLOSED"

(* Socket i opens in this step.                                            *)
OpenedIn(i) ==
    /\ i \in DOMAIN websocketService.webSockets
    /\ websocketService.webSockets[i].readyState = "CONNECTING"
    /\ websocketService'.webSockets[i].readyState = "OPEN"

(* The step sets one more reconnect timer.                                 *)
ReconnectScheduled == websocketService'.timers = websocketService.timers + 1

(* C34 as stated: every close with a code other than 1000 schedules one    *)
(* reconnect, whatever the number of attempts made since the last open.    *)
C34_EveryAbnormalCloseSchedules ==
    [][\A i \in 1..MaxBrowserSockets :
           (ClosedIn(i) /\ websocketService'.closeCode # NormalClosure)
               => ReconnectScheduled]_vars

(* C34: a close with a code other than 1000 schedules exactly one          *)
(* reconnect and counts it while fewer than maxReconnectAttempts were made *)
(* since the last open, and schedules none once that many were made; a     *)
(* close with code 1000 schedules none; only a close sets a timer; every   *)
(* open puts the counter back to 0; the counter never exceeds              *)
(* maxReconnectAttempts.                                                   *)
C34_BoundedReconnection ==
    [][/\ \A i \in 1..MaxBrowserSockets :
              ClosedIn(i) =>
                  IF websocketService'.closeCode # NormalClosure
                     /\ websocketService.reconnectAttempts < maxReconnectAttempts
                  THEN /\ ReconnectScheduled
                       /\ websocketService'.reconnectAttempts =
                              websocketService.reconnectAttempts + 1
                  ELSE /\ websocketService'.timers = websocketService.timers
                       /\ websocketService'.reconnectAttempts =
                              websocketService.reconnectAttempts
       /\ websocketService'.timers > websocketService.timers
              => \E i \in 1..MaxBrowserSockets :
                     ClosedIn(i) /\ websocketService'.closeCode # NormalClosure
       /\ \A i \in 1..MaxBrowserSockets :
              OpenedIn(i) => websocketService'.reconnectAttempts = 0
       /\ websocketService'.reconnectAttempts <= maxReconnectAttempts]_vars

(* The sixth socket in a row has failed to connect: five reconnects were   *)
(* scheduled since the last open and its close schedules none.             *)
C34_Witness ==
    /\ websocketService.reconnectAttempts = maxReconnectAttempts
    /\ websocketService.timers = 0
    /\ Len(websocketService.webSockets) > maxReconnectAttempts
    /\ websocketService.closeCode = AbnormalClosure
    /\ \A i \in DOMAIN websocketService.webSockets :
           websocketService.webSockets[i].readyState = "CLOSED"

(* C35: a WebSocket object is created only while no disconnect() is in     *)
(* force: after disconnect() and until the application calls connect()     *)
(* again, no step creates a connection.                                    *)
C35_DisconnectIsFinal ==
    [][Len(websocketService'.webSockets) > Len(websocketService.webSockets)
           => ~websocketService'.disconnected]_vars

----------------------------------------------------------------------------
(* Claims about the session the browser holds                              *)

(* The session of u holds a certificate and a decrypted private key.       *)
HoldsCertificateAndKey(u) ==
    /\ clientCert[u] # Undefined
    /\ clientCert[u].publicKeyPem # Undefined
    /\ clientCert[u].privateKey # Undefined

(* C36: whenever the session of a browser holds both a certificate and a   *)
(* decrypted private key, the public key of that private key is the        *)
(* certificate's public key.                                               *)
C36_KeyPairedWithCertificate ==
    \A u \in UserIds :
        HoldsCertificateAndKey(u)
            => extractPublicKeyFromPrivateKey(clientCert[u].privateKey)
                   = Ok(clientCert[u].publicKeyPem)

----------------------------------------------------------------------------
(* SessionSpec: AuthSpec with the reload of the page.                      *)

(* JSON.parse(storedCertificate) read by the context: a property the       *)
(* stored object lacks reads as undefined.                                 *)
ParsedCertificate(stored) ==
    IF stored = Undefined THEN Undefined
    ELSE [f \in DOMAIN stored \cup {"privateKey", "encryptedPrivateKey"} |->
              IF f \in DOMAIN stored THEN stored[f] ELSE Undefined]

(* AuthContext.checkAuthStatus, run by the effect of AuthProvider when the *)
(* page is loaded again.                                                   *)
CheckAuthStatus(u) ==
    /\ clientCert' = [clientCert EXCEPT ![u] =
                         IF storage[u].authToken # Undefined
                            /\ storage[u].userData # Undefined
                         THEN ParsedCertificate(storage[u].userCertificate)
                         ELSE Undefined]
    /\ UNCHANGED <<now, users, certs, messages, pending, resp, serverKeys, revokeOk,
                   view, served, storage>>
    /\ UNCHANGED <<labVars, build, websocketService, wsVars>>

(* The isAuthenticated state of the context: register and login set it     *)
(* with the token and the user data, logout clears it with them, and       *)
(* checkAuthStatus sets it to whether both are stored.                     *)
isAuthenticated(u) ==
    storage[u].authToken # Undefined /\ storage[u].userData # Undefined

(* AuthContext.getPrivateKey of the first definition: a certificate        *)
(* without privateKey is decrypted with the password login has saved.      *)
getPrivateKeyWithSavedPassword(certificate, savedPassword) ==
    IF certificate = Undefined THEN Err("Certificado nao encontrado")
    ELSE IF Falsy(certificate.privateKey)
    THEN IF Falsy(certificate.encryptedPrivateKey)
         THEN Err("Chave privada nao encontrada no certificado")
         ELSE IF Falsy(savedPassword) THEN Err("senha nao disponivel")
         ELSE LET decryptedPrivateKey ==
                      decryptPrivateKeyWithPassword(certificate.encryptedPrivateKey,
                                                    savedPassword, "malformed") IN
              IF decryptedPrivateKey.ok THEN decryptedPrivateKey
              ELSE Err("Erro ao descriptografar chave privada")
    ELSE IF ~IncludesPemHeaders(certificate.privateKey)
    THEN Err("Chave privada nao esta em formato PEM valido")
    ELSE Ok(certificate.privateKey)

(* What getPrivateKey() gives in the browser of u.                         *)
PrivateKeyOf(u) ==
    IF build = "first"
    THEN getPrivateKeyWithSavedPassword(clientCert[u], storage[u].tempPassword)
    ELSE getPrivateKey(clientCert[u])

SessionNext ==
    \/ \E u \in UserIds : Register(u)
    \/ \E u \in UserIds, g \in GarbageOutcomes : \E password \in LoginPasswords(u) :
           Login(u, password, g)
    \/ \E u \in UserIds : Logout(u)
    \/ \E u \in UserIds : CheckAuthStatus(u)

SessionSpec == AuthInit /\ [][SessionNext]_vars

(* C37: while the browser is authenticated getPrivateKey returns a PEM     *)
(* private key, and while it is not getPrivateKey throws.                  *)
C37_AuthenticatedCanDecrypt ==
    \A u \in UserIds :
        IF isAuthenticated(u)
        THEN PrivateKeyOf(u).ok /\ IncludesPemHeaders(PrivateKeyOf(u).val)
        ELSE ~PrivateKeyOf(u).ok

----------------------------------------------------------------------------
(* InboxSpec: the routes POST /api/messages and GET                        *)
(* /api/messages/conversation/:userId, called by any authenticated client  *)
(* with any body and any page.                                             *)

MaxStored == 2
Pages == {1, 2}
Limits == {1, 2}
RequestFields ==
    {"encryptedMessage", "encryptedKey", "senderEncryptedKey", "iv", "signature",
     "messageHash"}

(* The bodies a client of user me posts: the envelope encryptMessage makes *)
(* for recipient r, the same without one of its fields, without            *)
(* recipientId, and addressed to a user that does not exist.               *)
EnvelopeBodies(me, r) ==
    LET privateKey == getPrivateKey(clientCert[me]) IN
    IF ~privateKey.ok \/ ~Registered(r) THEN {}
    ELSE LET encryptedData == encryptMessage(Text("hello bob"), users[r].publicKey,
                                             privateKey.val, RandomFor(Len(messages) + 1))
             e == encryptedData.val
             body == [recipientId |-> r, encryptedMessage |-> e.encryptedMessage,
                      encryptedKey |-> e.encryptedKey,
                      senderEncryptedKey |-> e.senderEncryptedKey,
                      iv |-> e.iv, signature |-> e.signature,
                      messageHash |-> e.messageHash] IN
         IF ~encryptedData.ok THEN {}
         ELSE {body, [body EXCEPT !.recipientId = NoUserId]}
              \cup {[body EXCEPT ![f] = Undefined] : f \in RequestFields}
              \cup {[body EXCEPT !.recipientId = u] : u \in {v \in UserIds : ~Registered(v)}}

(* router.post('/') of the messages routes.  prisma.message.create is      *)
(* given senderEncryptedKey as it came; whether the column accepts a       *)
(* missing value is fixed by the Prisma schema: the row is stored without  *)
(* it, or the create is refused and the catch answers 500.                 *)
PostMessages(me, body) ==
    LET row == [id |-> Len(messages) + 1,
                content |-> body.encryptedMessage,
                encryptedKey |-> body.encryptedKey,
                senderEncryptedKey |-> body.senderEncryptedKey,
                iv |-> body.iv,
                contentHash |-> body.messageHash,
                signature |-> body.signature,
                senderId |-> me, receiverId |-> body.recipientId,
                isEncrypted |-> TRUE, isRead |-> FALSE, readAt |-> NoTime,
                createdAt |-> now] IN
    /\ Serve
    /\ Registered(me)
    /\ Len(messages) < MaxStored
    /\ IF \/ body.recipientId = NoUserId
          \/ Falsy(body.encryptedMessage) \/ Falsy(body.encryptedKey)
          \/ Falsy(body.iv) \/ Falsy(body.signature) \/ Falsy(body.messageHash)
       THEN /\ resp' = [route |-> "POST /api/messages", status |-> 400, user |-> me,
                        request |-> body,
                        body |-> [message |-> "Todos os campos sao obrigatorios"]]
            /\ UNCHANGED messages
       ELSE IF ~Registered(body.recipientId) \/ ~users[body.recipientId].isActive
       THEN /\ resp' = [route |-> "POST /api/messages", status |-> 404, user |-> me,
                        request |-> body,
                        body |-> [message |-> "Destinatario nao encontrado"]]
            /\ UNCHANGED messages
       ELSE \/ /\ messages' = Append(messages, row)
               /\ \E online \in BOOLEAN :
                      resp' = [route |-> "POST /api/messages", status |-> 201, user |-> me,
                               request |-> body,
                               body |-> [messageId |-> row.id, delivered |-> online],
                               push |-> IF online THEN NewMessagePush(row) ELSE Undefined]
            \/ /\ body.senderEncryptedKey = Undefined
               /\ resp' = [route |-> "POST /api/messages", status |-> 500, user |-> me,
                           request |-> body,
                           body |-> [message |-> "Erro interno do servidor"]]
               /\ UNCHANGED messages
    /\ UNCHANGED <<now, users, certs, pending, serverKeys, revokeOk, clientCert, view>>
    /\ UNCHANGED <<labVars, otherVars>>

Reverse(s) == [i \in 1..Len(s) |-> s[Len(s) + 1 - i]]
Min(a, b) == IF a <= b THEN a ELSE b

(* findMany({ orderBy: { createdAt: 'desc' }, skip, take }) over the       *)
(* conversation; rows of the same instant are taken newest first.          *)
FindManyPage(table, me, userId, skip, take) ==
    LET conversation == SelectSeq(table, LAMBDA msg : InConversation(msg, me, userId))
        newestFirst == Reverse(conversation) IN
    SubSeq(newestFirst, skip + 1, Min(skip + take, Len(newestFirst)))

(* updateMany({ where: { senderId: userId, receiverId: me, isRead: false }, *)
(* data: { isRead: true, readAt: new Date() } })                           *)
UpdateManyRead(table, me, userId, t) ==
    [i \in DOMAIN table |->
         IF table[i].senderId = userId /\ table[i].receiverId = me /\ ~table[i].isRead
         THEN [table[i] EXCEPT !.isRead = TRUE, !.readAt = t]
         ELSE table[i]]

(* router.get('/conversation/:userId')                                     *)
GetConversation(me, userId, page, limit) ==
    LET skip == (page - 1) * limit
        found == FindManyPage(messages, me, userId, skip, limit)
        totalCount == Len(SelectSeq(messages, LAMBDA msg : InConversation(msg, me, userId)))
        request == [userId |-> userId, page |-> page, limit |-> limit] IN
    /\ Serve
    /\ Registered(me)
    /\ IF ~Registered(userId) \/ ~users[userId].isActive
       THEN /\ resp' = [route |-> "GET /api/messages/conversation/:userId", status |-> 404,
                        user |-> me, request |-> request,
                        body |-> [message |-> "Usuario nao encontrado"]]
            /\ UNCHANGED messages
       ELSE /\ messages' = UpdateManyRead(messages, me, userId, now)
            /\ resp' = [route |-> "GET /api/messages/conversation/:userId", status |-> 200,
                        user |-> me, request |-> request,
                        body |-> [messages |-> Reverse(found),
                                  pagination |-> [page |-> page, limit |-> limit,
                                                  total |-> totalCount,
                                                  hasMore |-> skip + Len(found) < totalCount]]]
    /\ UNCHANGED <<now, users, certs, pending, serverKeys, revokeOk, clientCert, view>>
    /\ UNCHANGED <<labVars, otherVars>>

InboxNext ==
    \/ \E u \in UserIds : ~Registered(u) /\ Register(u)
    \/ \E me \in UserIds, r \in UserIds : \E body \in EnvelopeBodies(me, r) :
           PostMessages(me, body)
    \/ \E me \in UserIds, userId \in UserIds, page \in Pages, limit \in Limits :
           GetConversation(me, userId, page, limit)

InboxSpec == Init /\ [][InboxNext]_vars

(* The step answers a request of the conversation route with a page.       *)
ConversationAnswered ==
    /\ served' # served
    /\ resp'.route = "GET /api/messages/conversation/:userId"
    /\ resp'.status = 200

(* C38: a request of the conversation route marks as read only messages    *)
(* of the page it returns.                                                 *)
C38_ReadOnlyWhatWasReturned ==
    [][ConversationAnswered
           => \A i \in DOMAIN messages :
                  (messages'[i].isRead /\ ~messages[i].isRead)
                      => \E k \in DOMAIN resp'.body.messages :
                             resp'.body.messages[k].id = i]_vars

(* The record holds the six fields of the envelope.                        *)
CompleteEnvelope(ciphertext, iv, encryptedKey, senderEncryptedKey, signature, hash) ==
    /\ ~Falsy(ciphertext) /\ ~Falsy(iv) /\ ~Falsy(encryptedKey)
    /\ ~Falsy(senderEncryptedKey) /\ ~Falsy(signature) /\ ~Falsy(hash)

(* The step answers a request of POST /api/messages.                       *)
PostAnswered == served' # served /\ resp'.route = "POST /api/messages"

(* C39: every row POST /api/messages stores holds the ciphertext, the IV,  *)
(* the recipient's and the sender's key wrap, the signature and the        *)
(* content hash, and a request that lacks one of them is answered 400 and  *)
(* stores nothing.                                                         *)
C39_CompleteEnvelopeOrRejected ==
    [][PostAnswered
           => LET body == resp'.request
                  complete == CompleteEnvelope(body.encryptedMessage, body.iv,
                                               body.encryptedKey, body.senderEncryptedKey,
                                               body.signature, body.messageHash) IN
              /\ ~complete => resp'.status = 400 /\ messages' = messages
              /\ messages' # messages
                     => LET row == messages'[Len(messages')] IN
                        CompleteEnvelope(row.content, row.iv, row.encryptedKey,
                                         row.senderEncryptedKey, row.signature,
                                         row.contentHash)]_vars

====
